---- MODULE Spec2Model ----
(***************************************************************************)
(* A model of the gog-warp downloader (src/src/content_system/downloader): *)
(* Downloader::download with its worker tasks, the on-disk staging layout  *)
(* (final path, `.download`, `.state`, `.gog-warp-build`), the verifier    *)
(* and the supervisor's join/cancel loop.                                  *)
(*                                                                         *)
(* Sizes and offsets are counted in units of 512 KiB, so that the 1 MiB    *)
(* read block of the verifier is exactly two units.  A byte of a file is   *)
(* an integer: 0 is a preallocated (zero) byte, every other value names    *)
(* the build, path, chunk and position it belongs to.                      *)
(***************************************************************************)
EXTENDS Integers, Sequences, FiniteSets, TLC

\* ------------------------------------------------------------------ data

\* The 1 MiB read buffer of calculate_md5, in units of 512 KiB.
READ_CHUNK_SIZE == 2

\* Semaphore::new(3): concurrently running file workers.
FilePermits == 3

\* Semaphore::new(6): concurrent chunk requests of the whole run.
ChunkPermits == 6

\* buffer_unordered(6): chunk futures one V2 worker polls at a time.
BufferUnordered == 6

\* The number of Downloaders built, one after the other, on one install root.
MaxRuns == 3

\* The builds a Downloader can be asked to install.
Builds == {"A", "B"}

\* Every path that occurs in a depot of some build.
Paths == {"f", "g"}

\* The depot entries of each build: the generation of the entry and the
\* sizes of its chunks (a V1 file is one byte range of main.bin).
Manifest ==
  [A |-> [f |-> [gen |-> 2, chunks |-> <<1, 2, 1>>]],
   B |-> [f |-> [gen |-> 2, chunks |-> <<2>>],
          g |-> [gen |-> 1, chunks |-> <<2>>]]]

\* The paths of the download list of the DiffReport for build b.
Entries(b) == DOMAIN Manifest[b]

Gen(b, p) == Manifest[b][p].gen

ChunkSizes(b, p) == Manifest[b][p].chunks

NChunks(b, p) == Len(ChunkSizes(b, p))

BuildNo(b) == CASE b = "A" -> 1 [] b = "B" -> 2 [] OTHER -> 3

PathNo(p) == CASE p = "f" -> 1 [] OTHER -> 2

\* The decompressed bytes the CDN serves for chunk i of path p in build b.
ChunkData(b, p, i) ==
  [k \in 1..ChunkSizes(b, p)[i] |->
      1000 * BuildNo(b) + 100 * PathNo(p) + 10 * i + k]

RECURSIVE SumTo(_, _)
SumTo(sizes, n) == IF n = 0 THEN 0 ELSE sizes[n] + SumTo(sizes, n - 1)

\* A wrong offset: the chunk's index taken for its byte offset.
ChunkOffsetByIndex(b, p, i) == i - 1

\* `offset` of the worker loop: the sum of the sizes of the chunks before i.
ChunkOffset(b, p, i) == SumTo(ChunkSizes(b, p), i - 1)

\* EntryUtils::size: the sum of the chunk sizes (V1: the size field).
EntrySize(b, p) == SumTo(ChunkSizes(b, p), NChunks(b, p))

RECURSIVE ConcatTo(_, _, _)
ConcatTo(b, p, n) ==
  IF n = 0 THEN <<>> ELSE ConcatTo(b, p, n - 1) \o ChunkData(b, p, n)

\* The contents the manifest of build b implies for path p.
Expected(b, p) == ConcatTo(b, p, NChunks(b, p))

\* The bytes of the previously installed build found in the install root
\* when an old manifest is given.
OldData(p) == <<1000 * BuildNo("O") + 100 * PathNo(p) + 1>>

\* ------------------------------------------------------------ file system

NoFile == [e |-> FALSE, d |-> <<>>]

FileOf(bytes) == [e |-> TRUE, d |-> bytes]

\* A `.state` sidecar: absent, present but not decodable (just created),
\* or a bincode-encoded bitmap.
NoState == [e |-> FALSE, v |-> FALSE, c |-> <<>>]

EmptyState == [e |-> TRUE, v |-> FALSE, c |-> <<>>]

Bitmap(bits) == [e |-> TRUE, v |-> TRUE, c |-> bits]

\* A staging/install root: the directory, the `.gog-warp-build` marker,
\* and per path the final file, `path.download`, `path.state` and
\* `path.download.state`.
EmptyRoot ==
  [dir |-> FALSE, marker |-> "none",
   final |-> [p \in Paths |-> NoFile],
   dl |-> [p \in Paths |-> NoFile],
   st |-> [p \in Paths |-> NoState],
   dlst |-> [p \in Paths |-> NoState]]

Max(a, b) == IF a > b THEN a ELSE b

Min(a, b) == IF a < b THEN a ELSE b

\* A write that leaves the file as it is.
WriteNothing(data, off, bytes) == data

\* seek(Start(off)) followed by write_all(bytes) on a file holding `data`.
WriteAt(data, off, bytes) ==
  [k \in 1..Max(Len(data), off + Len(bytes)) |->
      IF k > off /\ k <= off + Len(bytes) THEN bytes[k - off]
      ELSE IF k <= Len(data) THEN data[k] ELSE 0]

\* utils::allocate on a file opened with create(true), truncate(false):
\* fallocate(fd, 0, 0, size) extends a shorter file with zeros and leaves a
\* file of at least `size` bytes as it is.
Allocate(file, size) ==
  IF size = 0 THEN FileOf(file.d)
  ELSE FileOf([k \in 1..Max(Len(file.d), size) |->
                  IF k <= Len(file.d) THEN file.d[k] ELSE 0])

\* The digest is modelled as collision free: two digests are equal exactly
\* when the hashed byte strings are.
Md5(bytes) == bytes

\* The read loop of calculate_md5: position reached when it stops.  It
\* reads whole READ_CHUNK_SIZE buffers while fewer than `size` bytes were
\* read (size < 0 stands for None: read to the end of the file).
RECURSIVE Md5Loop(_, _, _, _)
Md5Loop(data, pos, size, read) ==
  IF size >= 0 /\ size <= read THEN pos
  ELSE LET chk_size == Min(READ_CHUNK_SIZE, Max(0, Len(data) - pos))
       IN IF chk_size = 0 THEN pos
          ELSE Md5Loop(data, pos + chk_size, size, read + chk_size)

calculate_md5(data, offset, size) ==
  Md5(SubSeq(data, offset + 1, Md5Loop(data, offset, size, 0)))

\* verify_v2_chunk_state(file, chunks of (b, p), state).
verify_v2_chunk_state(file, b, p, state) ==
  IF ~file.e THEN [correct |-> FALSE, new_state |-> <<>>]
  ELSE LET pre(i) == state = <<>> \/ (i <= Len(state) /\ state[i])
           good(i) == calculate_md5(file.d, ChunkOffset(b, p, i),
                                    ChunkSizes(b, p)[i])
                        = Md5(ChunkData(b, p, i))
       IN [correct |-> \A i \in 1..NChunks(b, p) : pre(i) => good(i),
           new_state |-> [i \in 1..NChunks(b, p) |-> pre(i) /\ good(i)]]

\* Downloader::get_file_status on root R.
get_file_status(R, p) ==
  IF R.final[p].e THEN "Done"
  ELSE IF R.st[p].e /\ R.st[p].v THEN "Partial"
  ELSE IF R.dl[p].e THEN "Allocated"
  ELSE "NotInitialized"

\* ------------------------------------------------------------- diff::diff

\* The longest file list given to diff().
MaxFiles == 2

\* An entry of a depot, of either generation.  Fields a kind does not have
\* hold "none", <<>> or 0.  chunks is the list of the chunk md5s.
Entry(kind, path, md5, sha256, chunks, hash, size) ==
  [kind |-> kind, path |-> path, md5 |-> md5, sha256 |-> sha256,
   chunks |-> chunks, hash |-> hash, size |-> size, sfc_ref |-> FALSE]

V2File(path, md5, sha256, chunks) ==
  Entry("V2File", path, md5, sha256, chunks, "none", 0)

V1File(path, hash, size) == Entry("V1File", path, "none", "none", <<>>, hash, size)

V2Directory(path) == Entry("V2Directory", path, "none", "none", <<>>, "none", 0)

V1Directory(path) == Entry("V1Directory", path, "none", "none", <<>>, "none", 0)

V2Diff(path_source) == Entry("V2Diff", path_source, "none", "none", <<"cd">>, "none", 0)

\* The entries the new manifest is drawn from.
NewUniverse ==
  { V2File("a", "none", "none", <<"c1">>),
    V2File("a", "m1", "s1", <<"c1", "c2">>),
    V2File("a", "none", "none", <<>>),
    V2File("A", "m1", "s1", <<"c1", "c2">>),
    V2Directory("d"),
    V1Directory("d"),
    V1File("a", "m1", 1) }

\* The entries the old manifest is drawn from.
OldUniverse ==
  { V2File("a", "none", "none", <<"c1">>),
    V2File("a", "none", "none", <<"c2">>),
    V2File("a", "none", "s1", <<"c1", "c2">>),
    V2File("a", "none", "none", <<>>),
    V2File("x", "m1", "s1", <<"c1", "c2">>),
    V2File("A", "m1", "none", <<"c1", "c2">>),
    V1File("a", "m1", 1) }

\* FileList::new(product_id, files): is_dependency false, no sfc.
FileList(product_id, files) ==
  [product_id |-> product_id, files |-> files, sfc |-> "none"]

SeqsUpTo(S, n) == UNION {[1..k -> S] : k \in 0..n}

\* str::to_lowercase with no folding at all.
to_lowercase_identity(path) == path

\* str::to_lowercase on the paths of the universes.
to_lowercase(path) == IF path = "A" THEN "a" ELSE path

\* EntryUtils::is_dir of traits::EntryUtils for DepotEntry.
is_dir(e) == e.kind \in {"V1Directory", "V2Directory"}

\* The entries of the lists, in iteration order.
RECURSIVE FlattenTo(_, _)
FlattenTo(lists, n) ==
  IF n = 0 THEN <<>> ELSE FlattenTo(lists, n - 1) \o lists[n].files

Flatten(lists) == FlattenTo(lists, Len(lists))

\* map_list: lowercase path -> entry; a later insert replaces an earlier one.
map_list(lists) ==
  LET fl == Flatten(lists)
      keys == {to_lowercase(fl[i].path) : i \in DOMAIN fl}
  IN [k \in keys |->
        fl[CHOOSE i \in DOMAIN fl :
             /\ to_lowercase(fl[i].path) = k
             /\ \A j \in DOMAIN fl : to_lowercase(fl[j].path) = k => j <= i]]

\* The `unwrap`s of diff(): a patch whose path the new manifest lacks, and
\* the first chunk of an old V2 file that has neither md5 nor chunks.
DiffPanics(new, old, pl) ==
  \/ \E i \in DOMAIN Flatten(pl) :
       to_lowercase(Flatten(pl)[i].path) \notin DOMAIN new
  \/ \E k \in DOMAIN new \cap DOMAIN old :
       /\ new[k].kind = "V1File" /\ old[k].kind = "V2File"
       /\ new[k].size # 0
       /\ old[k].md5 = "none" /\ old[k].chunks = <<>>

\* report.patches: one Patch per patch entry whose new file is a V2 entry.
RECURSIVE PatchesTo(_, _, _, _)
PatchesTo(new, pids, fl, n) ==
  IF n = 0 THEN <<>>
  ELSE LET rest == PatchesTo(new, pids, fl, n - 1)
           nf == new[to_lowercase(fl[n].path)]
       IN IF nf.kind \in {"V2File", "V2Directory", "V2Link", "V2Diff"}
          THEN Append(rest, [product_id |-> pids[n], diff |-> fl[n],
                             destination_file |-> nf])
          ELSE rest

\* The product id of each entry of Flatten(lists).
RECURSIVE ProductsTo(_, _)
ProductsTo(lists, n) ==
  IF n = 0 THEN <<>>
  ELSE ProductsTo(lists, n - 1) \o
       [i \in 1..Len(lists[n].files) |-> lists[n].product_id]

\* A match that skips every path the old manifest has, whatever its checksums.
UnchangedByPath(new, old, patched_files, k) == k \in DOMAIN old

\* The match of the main loop: TRUE when `final_download.remove` is called
\* for the key k.
Unchanged(new, old, patched_files, k) ==
  /\ k \in DOMAIN old
  /\ LET nf == new[k]
         of == old[k]
     IN CASE nf.kind = "V1File" /\ of.kind = "V1File" -> nf.hash = of.hash
          [] nf.kind = "V2File" /\ of.kind = "V1File" ->
               /\ nf.chunks # <<>>
               /\ (IF nf.md5 # "none" THEN nf.md5 ELSE nf.chunks[1]) = of.hash
          [] nf.kind = "V1File" /\ of.kind = "V2File" ->
               /\ nf.size # 0
               /\ (IF of.md5 # "none" THEN of.md5 ELSE of.chunks[1]) = nf.hash
          [] nf.kind = "V2File" /\ of.kind = "V2File" ->
               /\ nf.chunks # <<>>
               /\ \/ k \in patched_files
                  \/ /\ Len(nf.chunks) = 1 /\ Len(of.chunks) = 1
                     /\ nf.chunks[1] = of.chunks[1]
                  \/ nf.md5 # "none" /\ of.md5 # "none" /\ nf.md5 = of.md5
                  \/ /\ nf.sha256 # "none" /\ of.sha256 # "none"
                     /\ nf.sha256 = of.sha256
          [] OTHER -> FALSE

\* The filter of one list: an entry is kept when `final_download.remove`
\* of its lowercase path returns true, which it does once per key.
RECURSIVE FilterTo(_, _, _)
FilterTo(files, n, final_download) ==
  IF n = 0 THEN [files |-> <<>>, final_download |-> final_download]
  ELSE LET r == FilterTo(files, n - 1, final_download)
           k == to_lowercase(files[n].path)
       IN IF k \in r.final_download
          THEN [files |-> Append(r.files, files[n]),
                final_download |-> r.final_download \ {k}]
          ELSE r

\* report.download: the lists in order, empty ones dropped.
RECURSIVE DownloadTo(_, _, _)
DownloadTo(lists, n, final_download) ==
  IF n = 0 THEN [download |-> <<>>, final_download |-> final_download]
  ELSE LET r == DownloadTo(lists, n - 1, final_download)
           f == FilterTo(lists[n].files, Len(lists[n].files), r.final_download)
           needs_sfc == \E i \in DOMAIN f.files :
                          f.files[i].kind = "V2File" /\ f.files[i].sfc_ref
           new_list == [product_id |-> lists[n].product_id, files |-> f.files,
                        sfc |-> IF needs_sfc THEN lists[n].sfc ELSE "none"]
       IN [download |-> IF f.files = <<>> THEN r.download
                        ELSE Append(r.download, new_list),
           final_download |-> f.final_download]

\* report.deleted: the old entries, in order, whose key the new map lacks.
RECURSIVE DeletedTo(_, _, _)
DeletedTo(fl, n, deleted_paths) ==
  IF n = 0 THEN <<>>
  ELSE LET rest == DeletedTo(fl, n - 1, deleted_paths)
       IN IF to_lowercase(fl[n].path) \in deleted_paths
          THEN Append(rest, fl[n]) ELSE rest

RECURSIVE CountTo(_, _)
CountTo(download, n) ==
  IF n = 0 THEN 0 ELSE CountTo(download, n - 1) + Len(download[n].files)

\* diff has not been called.
NoReport == [status |-> "none"]

\* diff::diff(new_entries, old_entries, patches).  `directories` is filled
\* in HashMap iteration order, so it is kept as a set.
diff(new_lists, old_lists, patch_lists) ==
  LET new == map_list(new_lists)
      old == map_list(old_lists)
      pfl == Flatten(patch_lists)
  IN IF DiffPanics(new, old, patch_lists) THEN [status |-> "panic"]
     ELSE
       LET patched_files == {to_lowercase(pfl[i].path) : i \in DOMAIN pfl}
           report_patches ==
             PatchesTo(new, ProductsTo(patch_lists, Len(patch_lists)), pfl, Len(pfl))
           deleted_paths == DOMAIN old \ DOMAIN new
           final_download ==
             {k \in DOMAIN new : ~Unchanged(new, old, patched_files, k)}
           download == DownloadTo(new_lists, Len(new_lists), final_download).download
       IN [status |-> "report",
           download |-> download,
           patches |-> report_patches,
           directories |-> {new[k] : k \in {q \in DOMAIN new : is_dir(new[q])}},
           deleted |-> DeletedTo(Flatten(old_lists), Len(Flatten(old_lists)),
                                 deleted_paths),
           number_of_files |-> Len(report_patches) + CountTo(download, Len(download))]

\* ------------------------------------------- download() over entry kinds
\*
\* One download() of a DiffReport that holds entries of every kind: a
\* directory "d", a chunked file "w", a zero-size file "z", a file "s" kept
\* in the small files container whose blob is "b", a link "l", a patch for
\* the file "p", and the deleted old entries "o" (file), "od" (directory)
\* and "os" (support file).  The workers are taken as whole steps; the
\* chunk-level behaviour of a worker is that of W2_* and W1_* above.

\* Sizes, in units of 512 KiB: the file "w", the patched file "p", its
\* Diff entry, the one chunk of the blob, and "s" when it lists chunks.
SizeW == 2
SizeP == 2
SizeDiff == 1
SizeBlob == 1
SizeS == 1

\* The order of the entries in the one download list, product "P".
ListOrder == <<"d", "w", "z", "s", "l">>

DeletedOrder == <<"o", "od", "os">>

\* The members of the set, in the order of the sequence.
RECURSIVE Pick(_, _)
Pick(order, S) ==
  IF order = <<>> THEN <<>>
  ELSE (IF Head(order) \in S THEN <<Head(order)>> ELSE <<>>) \o Pick(Tail(order), S)

Range(s) == {s[i] : i \in DOMAIN s}

\* EntryUtils::is_dir, is_support and size of the entries, and the V2 Link
\* and sfc_ref tests of download().  `in` is the input of the run.
IsDir(n) == n \in {"d", "od"}

IsLink(n) == n = "l"

IsSupport(n) == n = "os"

IsSfcContained(n) == n = "s"

EntryBytes(in, n) ==
  CASE n = "w" -> SizeW
    [] n = "p" -> SizeP
    [] n = "s" -> IF in.sfc_chunks THEN SizeS ELSE 0
    [] OTHER -> 0

\* The file system: a function from the paths that exist, <<root, name,
\* suffix>>, to what is there.  A file holds its bytes, a directory whether
\* it has children, a link its target.
KFile(d) == [t |-> "file", d |-> d]

KDir(d) == [t |-> "dir", d |-> d]

KLink(target) == [t |-> "link", d |-> <<target>>]

Put(fs, p, node) == [q \in DOMAIN fs \cup {p} |-> IF q = p THEN node ELSE fs[q]]

Del(fs, p) == [q \in DOMAIN fs \ {p} |-> fs[q]]

\* open(create(true), truncate(false)): an existing file keeps its bytes.
Create(fs, p, d) == IF p \in DOMAIN fs THEN fs ELSE Put(fs, p, KFile(d))

\* Path::exists, which follows a link to its target beside it.
PathExists(fs, p) ==
  /\ p \in DOMAIN fs
  /\ fs[p].t = "link" => <<p[1], fs[p].d[1], "">> \in DOMAIN fs

\* The bytes the manifest implies for an entry.
Body(n) == <<"body", n>>

\* Downloader::get_file_status on the path root/name.
get_file_status_at(fs, root, n) ==
  IF PathExists(fs, <<root, n, "">>) THEN "Done"
  ELSE IF PathExists(fs, <<root, n, ".state">>) THEN "Partial"
  ELSE IF PathExists(fs, <<root, n, ".download">>) THEN "Allocated"
  ELSE IF PathExists(fs, <<root, n, ".diff">>) THEN "PatchDownloaded"
  ELSE IF PathExists(fs, <<root, n, ".diff.download">>) THEN "Allocated"
  ELSE "NotInitialized"

\* Downloader::get_file_root(is_support, product_id, final_destination) of
\* a Downloader with (old) or without an old manifest whose manifest is of
\* generation gen.
get_file_root_for(old, gen, is_support, product_id, final_destination) ==
  IF old /\ ~final_destination THEN "tmp"
  ELSE IF is_support
       THEN (IF gen = 2
             THEN (IF product_id = "P" THEN "support/P" ELSE "support/0")
             ELSE "support")
       ELSE "inst"

\* The sum get_required_space would return if the status were not looked at.
get_required_space_all(in, old, fs) ==
  (IF in.sfc THEN SizeBlob ELSE 0)
  + (IF "w" \in Range(in.list) THEN SizeW ELSE 0)
  + (IF "s" \in Range(in.list) THEN EntryBytes(in, "s") ELSE 0)
  + (IF in.patches # <<>> THEN SizeDiff + SizeP ELSE 0)

\* The part of get_required_space for the entries list[1..k].
RECURSIVE SpaceOfTo(_, _, _, _)
SpaceOfTo(in, old, fs, k) ==
  IF k = 0 THEN 0
  ELSE LET n == in.list[k]
           file_root == get_file_root_for(old, in.gen, IsSupport(n), "P", FALSE)
       IN SpaceOfTo(in, old, fs, k - 1)
          + (IF ~IsDir(n) /\ get_file_status_at(fs, file_root, n) = "NotInitialized"
             THEN EntryBytes(in, n) ELSE 0)

\* Downloader::get_required_space.
get_required_space(in, old, fs) ==
  LET stage == get_file_root_for(old, in.gen, FALSE, "P", FALSE)
  IN (IF in.sfc /\ get_file_status_at(fs, stage, "b") = "NotInitialized"
      THEN SizeBlob ELSE 0)
     + SpaceOfTo(in, old, fs, Len(in.list))
     + (IF in.patches # <<>> /\ get_file_status_at(fs, stage, "p") = "NotInitialized"
        THEN SizeDiff + SizeP ELSE 0)

\* The target of the link "l".
LinkTarget == "w"

\* EntryUtils::compressed_size: every chunk of these entries is stored as
\* it is, so its compressed size is its size.
compressed_size(in, n) == EntryBytes(in, n)

\* DownloadProgress::default().
NoProgress == [downloaded |-> 0, written |-> 0, total_download |-> 0, total_size |-> 0]

\* The additions of download() to its DownloadProgress.
Count(a, downloaded, written, total_download, total_size) ==
  [a EXCEPT !.progress = [downloaded |-> @.downloaded + downloaded,
                          written |-> @.written + written,
                          total_download |-> @.total_download + total_download,
                          total_size |-> @.total_size + total_size]]

\* The bytes of "w" whose bits are set in the bitmap beside it: the first
\* of its two chunks in a bitmap a worker left, none in a bitmap that the
\* verification wrote for the file of another build.
BitsBytes(fs, root, n) ==
  IF <<root, n, ".state">> \in DOMAIN fs /\ fs[<<root, n, ".state">>] = KFile(<<"bitmap">>)
  THEN 1 ELSE 0

\* The allocation of one entry as if its size were never zero.
AllocEntryBySidecar(in, old, a, n) ==
  IF IsDir(n) THEN a
  ELSE [a EXCEPT !.fs = Create(@, <<get_file_root_for(old, in.gen, FALSE, "P", FALSE),
                                     n, ".download">>, <<"zeros">>)]

\* The allocation loop of download() for one entry of a download list; `a`
\* holds the file system, ready_files and new_symlinks so far.
AllocEntry(in, old, a, n) ==
  LET entry_root == get_file_root_for(old, in.gen, IsSupport(n), "P", FALSE)
      file_path == <<entry_root, n, "">>
      status == get_file_status_at(a.fs, entry_root, n)
      c == Count(a, 0, 0, IF IsSfcContained(n) THEN 0 ELSE compressed_size(in, n),
                 EntryBytes(in, n))
  IN IF IsDir(n)
     THEN [a EXCEPT !.fs = IF file_path \in DOMAIN @ THEN @
                           ELSE Put(@, file_path, KDir(<<"empty">>))]
     ELSE IF EntryBytes(in, n) = 0
     THEN IF IsLink(n)
          THEN [c EXCEPT !.links =
                  Append(@, [path |-> <<get_file_root_for(old, in.gen, FALSE, "P", TRUE),
                                        n, "">>,
                             target |-> LinkTarget])]
          ELSE [c EXCEPT !.fs = Create(@, file_path, <<>>),
                         !.ready = @ \cup {n}]
     ELSE IF status \in {"NotInitialized", "Allocated"}
     THEN [c EXCEPT !.fs = Create(@, <<entry_root, n, ".download">>, <<"zeros">>)]
     ELSE IF status = "Partial"
     THEN IF in.gen = 2
          THEN Count(c, BitsBytes(a.fs, entry_root, n), BitsBytes(a.fs, entry_root, n), 0, 0)
          ELSE c
     ELSE [Count(c, IF IsSfcContained(n) THEN 0 ELSE compressed_size(in, n),
                 EntryBytes(in, n), 0, 0)
             EXCEPT !.ready = @ \cup {n}]

RECURSIVE AllocEntriesTo(_, _, _, _)
AllocEntriesTo(in, old, a, k) ==
  IF k = 0 THEN a
  ELSE AllocEntry(in, old, AllocEntriesTo(in, old, a, k - 1), in.list[k])

\* The allocation of the blob of the small files container.
AllocSfc(in, old, a) ==
  LET install_root == get_file_root_for(old, in.gen, FALSE, "P", FALSE)
      c == Count(a, 0, 0, SizeBlob, SizeBlob)
  IN IF ~in.sfc THEN a
     ELSE IF get_file_status_at(a.fs, install_root, "b") \in {"NotInitialized", "Allocated"}
     THEN [c EXCEPT !.fs = Create(@, <<install_root, "b", ".download">>, <<"zeros">>)]
     ELSE [Count(c, SizeBlob, SizeBlob, 0, 0) EXCEPT !.ready = @ \cup {"b"}]

\* The allocation of the patches.
AllocPatches(in, old, a) ==
  LET entry_root == get_file_root_for(old, in.gen, FALSE, "P", FALSE)
      status == get_file_status_at(a.fs, entry_root, "p")
      c == Count(a, 0, 0, SizeDiff, SizeDiff + SizeP)
  IN IF in.patches = <<>> THEN a
     ELSE IF status \in {"NotInitialized", "Allocated"}
     THEN [c EXCEPT !.fs = Create(Create(@, <<entry_root, "p", ".diff.download">>,
                                         <<"zeros">>),
                                  <<entry_root, "p", ".patched">>, <<"zeros">>)]
     ELSE IF status = "Done"
     THEN [Count(c, SizeDiff, SizeP, 0, 0) EXCEPT !.ready = @ \cup {"p"}]
     ELSE IF status = "PatchDownloaded"
     THEN [Count(c, SizeDiff, 0, 0, 0) EXCEPT !.ready_patches = @ \cup {"p"}]
     ELSE c

\* The file .gog-warp-build of the root download() works in.
MarkerPath(old, gen) ==
  <<get_file_root_for(old, gen, FALSE, "0", FALSE), ".gog-warp-build", "">>

\* download() writes its build id to the marker, over whatever is there.
WriteMarker(fs, old, gen) == Put(fs, MarkerPath(old, gen), KFile(<<"build">>))

\* should_verify of download(): the verify flag of the Builder, or a
\* marker that holds another build id.
should_verify_at(in, old, fs) ==
  \/ in.verify
  \/ /\ PathExists(fs, MarkerPath(old, in.gen))
     /\ fs[MarkerPath(old, in.gen)] # KFile(<<"build">>)

\* Downloader::set_file_status: the rename of the path of one status to the
\* path of the other, whose failure is only logged.
set_file_status(fs, from_p, to_p) ==
  IF from_p \notin DOMAIN fs \/ (to_p \in DOMAIN fs /\ fs[to_p].t = "dir") THEN fs
  ELSE Put(Del(fs, from_p), to_p, fs[from_p])

\* The bytes whose md5s are those of the entry: calculate_md5 of a file
\* equals the md5 of the manifest exactly when the file holds them.  A V2
\* file without chunks has no md5 to compare with.
HasChecksum(in, n) == in.gen = 1 \/ EntryBytes(in, n) # 0

Expected_at(n) == KFile(IF n = "z" THEN <<>> ELSE Body(n))

\* Downloader::verify_depot_entry_state for one entry of a download list.
verify_depot_entry_state(in, old, fs, n) ==
  LET entry_root == get_file_root_for(old, in.gen, IsSupport(n), "P", FALSE)
      file_path == <<entry_root, n, "">>
      download_path == <<entry_root, n, ".download">>
      status == get_file_status_at(fs, entry_root, n)
  IN IF IsDir(n) \/ IsLink(n) THEN fs
     ELSE IF status = "Done"
     THEN IF ~HasChecksum(in, n) \/ fs[file_path] = Expected_at(n) THEN fs
          ELSE LET demoted == set_file_status(fs, file_path, download_path)
               IN IF in.gen = 2 /\ n = "w"
                  THEN Put(demoted, <<entry_root, n, ".state">>, KFile(<<"nobits">>))
                  ELSE demoted
     ELSE IF status = "Partial" /\ in.gen = 2
     THEN IF download_path \in DOMAIN fs /\ fs[download_path].d # <<"other", n>>
          THEN fs
          ELSE Put(fs, <<entry_root, n, ".download.state">>, KFile(<<"nobits">>))
     ELSE fs

RECURSIVE VerifyEntriesTo(_, _, _, _)
VerifyEntriesTo(in, old, fs, k) ==
  IF k = 0 THEN fs
  ELSE verify_depot_entry_state(in, old, VerifyEntriesTo(in, old, fs, k - 1), in.list[k])

\* Downloader::update_state: the blob of the container and the entries of
\* the download lists; report.patches is not walked.
update_state_at(in, old, fs) ==
  LET entry_root == get_file_root_for(old, in.gen, FALSE, "P", FALSE)
      blob == <<entry_root, "b", "">>
      checked == IF in.sfc /\ get_file_status_at(fs, entry_root, "b") = "Done"
                    /\ fs[blob] # KFile(Body("b"))
                 THEN set_file_status(fs, blob, <<entry_root, "b", ".download">>)
                 ELSE fs
  IN VerifyEntriesTo(in, old, checked, Len(in.list))

\* Everything download() does before it spawns the workers.
MetByAllocation(in, old, fs) ==
  LET marked == WriteMarker(fs, old, in.gen)
  IN IF should_verify_at(in, old, fs) THEN update_state_at(in, old, marked)
     ELSE marked

Allocation(in, old, fs) ==
  LET verified == MetByAllocation(in, old, fs)
  IN AllocPatches(in, old,
       AllocEntriesTo(in, old,
         AllocSfc(in, old, [fs |-> verified, ready |-> {}, ready_patches |-> {},
                            links |-> <<>>, progress |-> NoProgress]),
         Len(in.list)))

\* The tasks of the spawn loops: the blob, every entry that is neither
\* ready nor a directory nor kept in the container, and the Diff of every
\* patch that is not downloaded yet.
Tasks(in, a) ==
  (IF in.sfc /\ "b" \notin a.ready THEN {"b"} ELSE {})
  \cup {n \in Range(in.list) : n \notin a.ready /\ ~IsDir(n) /\ ~IsSfcContained(n)}
  \cup (IF in.patches # <<>> /\ "p" \notin a.ready_patches THEN {"p.diff"} ELSE {})

\* What a worker that returns Ok leaves on disk: worker::v2 returns at once
\* for a Link; the Diff of a patch is fetched to p.diff; a file or the blob
\* is fetched to its path and its sidecars are gone.
Complete(fs, stage, t) ==
  IF IsLink(t) THEN fs
  ELSE IF t = "p.diff"
  THEN Put(Del(fs, <<stage, "p", ".diff.download">>), <<stage, "p", ".diff">>,
           KFile(<<"diff", "p">>))
  ELSE Put(Del(Del(fs, <<stage, t, ".download">>), <<stage, t, ".state">>),
           <<stage, t, "">>, KFile(Body(t)))

RECURSIVE CompleteAll(_, _, _)
CompleteAll(fs, stage, T) ==
  IF T = {} THEN fs
  ELSE LET t == CHOOSE t \in T : TRUE
       IN CompleteAll(Complete(fs, stage, t), stage, T \ {t})

\* fs::rename; `x` holds the file system and the step that failed, if any.
Rename(x, src, dst, at) ==
  IF x.err # "none" THEN x
  ELSE IF src \notin DOMAIN x.fs THEN [x EXCEPT !.err = at]
  ELSE IF dst \in DOMAIN x.fs /\
          \/ x.fs[src].t = "dir" /\ x.fs[dst] # KDir(<<"empty">>)
          \/ x.fs[src].t # "dir" /\ x.fs[dst].t = "dir"
       THEN [x EXCEPT !.err = at]
  ELSE [x EXCEPT !.fs = Put(Del(@, src), dst, x.fs[src])]

\* The extraction of the small files container.
Extract(in, old, x) ==
  LET entry_root == get_file_root_for(old, in.gen, FALSE, "P", FALSE)
      sfc_path == <<entry_root, "b", "">>
      download_path == <<entry_root, "s", ".download">>
  IN IF x.err # "none" \/ ~in.sfc THEN x
     ELSE IF sfc_path \notin DOMAIN x.fs THEN [x EXCEPT !.err = "sfc"]
     ELSE IF get_file_status_at(x.fs, entry_root, "s") = "Done"
     THEN [x EXCEPT !.fs = Del(@, sfc_path)]
     ELSE IF download_path \notin DOMAIN x.fs THEN [x EXCEPT !.err = "sfc"]
     ELSE [x EXCEPT !.fs = Del(Put(Del(@, download_path), <<entry_root, "s", "">>,
                                   KFile(Body("s"))), sfc_path)]

\* A patch step that applies nothing.
PatchNothing(in, old, x) == x

\* The application of the patches.
Patch(in, old, x) ==
  LET tmp_root == get_file_root_for(old, in.gen, FALSE, "P", FALSE)
      dst_root == get_file_root_for(old, in.gen, FALSE, "P", TRUE)
      source_file_path == <<dst_root, "p", "">>
      diff_file_path == <<tmp_root, "p", ".diff">>
      target_file_path == <<tmp_root, "p", ".patched">>
  IN IF x.err # "none" \/ in.patches = <<>> THEN x
     ELSE IF diff_file_path \notin DOMAIN x.fs \/ source_file_path \notin DOMAIN x.fs
     THEN [x EXCEPT !.err = "patch"]
     ELSE IF x.fs[source_file_path] # KFile(<<"old", "p">>)
             \/ x.fs[diff_file_path] # KFile(<<"diff", "p">>)
     THEN [x EXCEPT !.err = "patch",
                    !.fs = Create(@, target_file_path, <<"zeros">>)]
     ELSE [x EXCEPT !.fs = Del(Put(Del(@, target_file_path), <<tmp_root, "p", "">>,
                                   KFile(Body("p"))), diff_file_path)]

\* The move of the entries list[1..k] from !Temp to their destination.
RECURSIVE PromoteTo(_, _, _, _)
PromoteTo(in, old, x, k) ==
  IF k = 0 THEN x
  ELSE LET n == in.list[k]
           tmp_entry_root == get_file_root_for(old, in.gen, IsSupport(n), "P", FALSE)
           dst_entry_root == get_file_root_for(old, in.gen, IsSupport(n), "P", TRUE)
       IN Rename(PromoteTo(in, old, x, k - 1),
                 <<tmp_entry_root, n, "">>, <<dst_entry_root, n, "">>, "promote")

\* fs::remove_dir_all of the root.
RemoveDirAll(fs, root) == [q \in {p \in DOMAIN fs : p[1] # root} |-> fs[q]]

\* The promotion: the entries, the patched files, then !Temp itself.
Promote(in, old, x) ==
  IF x.err # "none" \/ ~old THEN x
  ELSE LET y == PromoteTo(in, old, x, Len(in.list))
           z == IF in.patches = <<>> THEN y
                ELSE Rename(y, <<get_file_root_for(old, in.gen, FALSE, "P", FALSE), "p", "">>,
                            <<get_file_root_for(old, in.gen, FALSE, "P", TRUE), "p", "">>,
                            "promote")
       IN IF z.err # "none" THEN z
          ELSE [z EXCEPT !.fs = RemoveDirAll(@, get_file_root_for(old, in.gen, FALSE, "0", FALSE))]

\* utils::symlink(path, target): an existing path is removed when exists()
\* sees it, and symlinkat fails on a path that is still there.
symlink(x, link) ==
  LET fs1 == IF PathExists(x.fs, link.path) THEN Del(x.fs, link.path) ELSE x.fs
  IN IF x.err # "none" THEN x
     ELSE IF PathExists(x.fs, link.path) /\ x.fs[link.path].t = "dir"
     THEN [x EXCEPT !.err = "symlink"]
     ELSE IF link.path \in DOMAIN fs1 THEN [x EXCEPT !.err = "symlink"]
     ELSE [x EXCEPT !.fs = Put(fs1, link.path, KLink(link.target))]

RECURSIVE SymlinksTo(_, _, _)
SymlinksTo(x, links, k) ==
  IF k = 0 THEN x ELSE symlink(SymlinksTo(x, links, k - 1), links[k])

\* The removal of the entries deleted[1..k].
RECURSIVE DeleteTo(_, _, _, _)
DeleteTo(in, old, x, k) ==
  IF k = 0 THEN x
  ELSE LET y == DeleteTo(in, old, x, k - 1)
           n == in.deleted[k]
           file_path == <<get_file_root_for(old, in.gen, IsSupport(n), "0", TRUE), n, "">>
       IN IF y.err # "none" \/ ~PathExists(y.fs, file_path) THEN y
          ELSE IF y.fs[file_path].t = "dir" THEN [y EXCEPT !.err = "delete"]
          ELSE [y EXCEPT !.fs = Del(@, file_path)]

\* The removal of the marker, when it is still there.
RemoveMarker(in, old, x) ==
  IF x.err # "none" \/ ~PathExists(x.fs, MarkerPath(old, in.gen)) THEN x
  ELSE [x EXCEPT !.fs = Del(@, MarkerPath(old, in.gen))]

\* The progress task: not spawned, looping on try_recv, or past its loop,
\* where it offered Finished to the progress channel for one second; fs is
\* the file system at that moment, returned whether download() was over.
NoEvent == [state |-> "none", fs |-> <<>>, returned |-> FALSE]

Looping == [state |-> "running", fs |-> <<>>, returned |-> FALSE]

Finished(sent, fs, returned) ==
  [state |-> IF sent THEN "sent" ELSE "timeout", fs |-> fs, returned |-> returned]

\* A function from the first components of the pairs to the second ones.
FsOf(S) == [p \in {s[1] : s \in S} |-> (CHOOSE s \in S : s[1] = p)[2]]

\* What the old build left at the destination of the entries of the new
\* list: nothing, or its own version of each of them; the directory "d" of
\* the old build has children unless dst is "emptydir".
OldInstall(gen, sel, pat, del, dst) ==
  (IF pat # {} THEN {<<<<"inst", "p", "">>, KFile(<<"old", "p">>)>>} ELSE {})
  \cup {<<<<get_file_root_for(FALSE, gen, IsSupport(n), "P", TRUE), n, "">>,
          IF IsDir(n) THEN KDir(<<"empty">>) ELSE KFile(<<"old", n>>)>> : n \in del}
  \cup (IF dst = "absent" THEN {}
        ELSE {<<<<"inst", n, "">>,
                CASE IsDir(n) -> KDir(IF dst = "emptydir" THEN <<"empty">> ELSE <<"full">>)
                  [] IsLink(n) -> KLink(LinkTarget)
                  [] OTHER -> KFile(<<"old", n>>)>> : n \in sel})

\* What an earlier run of the same download left in the staging root:
\* nothing; everything allocated; the same with a bitmap beside "w"; every
\* worker finished; the whole install finished; a file of another build at
\* the path of "z"; every worker finished and the patch applied; or what
\* the download of another build left when every worker had finished.
Leftover(stage, sel, sfc_chunks, pat, resume) ==
  LET early == resume \in {"allocated", "partial", "downloaded"}
      Side(n, ext, d) == <<<<stage, n, ext>>, KFile(d)>>
  IN (IF early THEN {Side(".gog-warp-build", "", <<"build">>)} ELSE {})
     \cup (IF early /\ "d" \in sel THEN {<<<<stage, "d", "">>, KDir(<<"empty">>)>>} ELSE {})
     \cup (IF early /\ "z" \in sel THEN {Side("z", "", <<>>)} ELSE {})
     \cup (IF early /\ "s" \in sel /\ sfc_chunks
           THEN {Side("s", ".download", <<"zeros">>)} ELSE {})
     \cup (IF early /\ "s" \in sel /\ ~sfc_chunks THEN {Side("s", "", <<>>)} ELSE {})
     \cup (IF early /\ pat # {} THEN {Side("p", ".patched", <<"zeros">>)} ELSE {})
     \cup (IF resume \in {"allocated", "partial"}
           THEN (IF "w" \in sel THEN {Side("w", ".download", <<"zeros">>)} ELSE {})
                \cup (IF "s" \in sel THEN {Side("b", ".download", <<"zeros">>)} ELSE {})
                \cup (IF pat # {} THEN {Side("p", ".diff.download", <<"zeros">>)} ELSE {})
           ELSE {})
     \cup (IF resume = "partial" /\ "w" \in sel
           THEN {Side("w", ".state", <<"bitmap">>)} ELSE {})
     \cup (IF resume = "downloaded"
           THEN (IF "w" \in sel THEN {Side("w", "", Body("w"))} ELSE {})
                \cup (IF "s" \in sel THEN {Side("b", "", Body("b"))} ELSE {})
                \cup (IF pat # {} THEN {Side("p", ".diff", <<"diff", "p">>)} ELSE {})
           ELSE {})
     \cup (IF resume = "done"
           THEN {<<<<stage, n, "">>,
                   CASE IsDir(n) -> KDir(<<"empty">>)
                     [] IsLink(n) -> KLink(LinkTarget)
                     [] n = "z" -> KFile(<<>>)
                     [] OTHER -> KFile(Body(n))>> : n \in sel}
           ELSE {})
     \cup (IF resume = "stale" /\ "z" \in sel THEN {Side("z", "", <<"junk">>)} ELSE {})
     \cup (IF resume = "patched"
           THEN {Side(".gog-warp-build", "", <<"build">>)}
                \cup (IF "d" \in sel THEN {<<<<stage, "d", "">>, KDir(<<"empty">>)>>} ELSE {})
                \cup (IF "z" \in sel THEN {Side("z", "", <<>>)} ELSE {})
                \cup (IF "w" \in sel THEN {Side("w", "", Body("w"))} ELSE {})
                \cup (IF "s" \in sel
                      THEN {Side("s", "", IF sfc_chunks THEN Body("s") ELSE <<>>)}
                      ELSE {})
                \cup (IF pat # {} THEN {Side("p", "", Body("p"))} ELSE {})
           ELSE {})
     \cup (IF resume = "otherbuild"
           THEN {Side(".gog-warp-build", "", <<"other">>)}
                \cup (IF "d" \in sel THEN {<<<<stage, "d", "">>, KDir(<<"empty">>)>>} ELSE {})
                \cup (IF "z" \in sel THEN {Side("z", "", <<>>)} ELSE {})
                \cup (IF "w" \in sel THEN {Side("w", "", <<"other", "w">>)} ELSE {})
                \cup (IF pat # {} THEN {Side("p", ".diff", <<"other", "p.diff">>)} ELSE {})
           ELSE {})

\* The inputs of one run: the generation of the manifest, the DiffReport
\* (download list, container, patches, deleted) and the disk it meets.  With
\* an old manifest the staging root is !Temp, which only an interrupted run
\* of this download has written to; without one it is the install root,
\* which may hold a finished install or a file of another build.
KInput(old, gen, verify, sel, sfc_chunks, pat, del, dst, resume) ==
  [gen |-> gen,
   verify |-> verify,
   list |-> Pick(ListOrder, sel),
   sfc |-> "s" \in sel,
   sfc_chunks |-> sfc_chunks,
   patches |-> Pick(<<"p">>, pat),
   deleted |-> Pick(DeletedOrder, del),
   fs0 |-> FsOf((IF old THEN OldInstall(gen, sel, pat, del, dst) ELSE {})
                \cup Leftover(IF old THEN "tmp" ELSE "inst", sel, sfc_chunks, pat,
                              resume))]

KInputs(old) ==
  {KInput(old, gen, verify, sel, sfc_chunks, pat, del, dst, resume) :
     gen \in {1, 2},
     verify \in BOOLEAN,
     sel \in SUBSET {"d", "w", "z", "s", "l"},
     sfc_chunks \in BOOLEAN,
     pat \in SUBSET {"p"},
     del \in {{}, {"o"}, {"od"}, {"os"}, {"o", "od", "os"}},
     dst \in IF old THEN {"absent", "present", "emptydir"} ELSE {"absent"},
     resume \in {"none", "allocated", "partial", "downloaded", "patched", "otherbuild"}
                \cup (IF old THEN {} ELSE {"done", "stale"})}

\* The inputs a Downloader can meet: links, the container and patches need
\* a V2 manifest; patches and deleted entries an old manifest.
KValid(old, in) ==
  /\ in.gen = 1 => Range(in.list) \cap {"s", "l"} = {}
  /\ in.sfc_chunks => in.sfc
  /\ in.patches # <<>> => old /\ in.gen = 2
  /\ in.deleted # <<>> => old

NoInput ==
  [gen |-> 2, verify |-> FALSE, list |-> <<>>, sfc |-> FALSE, sfc_chunks |-> FALSE,
   patches |-> <<>>, deleted |-> <<>>, fs0 |-> <<>>]

\* ---------------------------------------------------------------- Builder

\* Builder::new(): the derived Default.
NewBuilder ==
  [core |-> FALSE, manifest |-> "none", install_root |-> FALSE,
   install_path |-> FALSE, support_root |-> FALSE,
   dependency_manifest |-> FALSE, global_dependencies |-> <<>>]

NotBuilt == [status |-> "none"]

DownloaderBuilder == [status |-> "Err", error |-> "DownloaderBuilder"]

\* Manifest::install_directory, and the id under which the support files of
\* the manifest are kept.
install_directory(manifest) == IF manifest = "none" THEN <<>> ELSE <<"dir">>

support_id(manifest) ==
  CASE manifest = "V2" -> <<"base_product_id">>
    [] manifest = "V1" -> <<"root_game_id">>
    [] OTHER -> <<>>

\* Builder::build; paths are sequences of components.
build(b) ==
  IF b.manifest = "none" /\ ~b.dependency_manifest THEN DownloaderBuilder
  ELSE IF ~b.core THEN DownloaderBuilder
  ELSE IF ~b.install_root /\ ~b.install_path THEN DownloaderBuilder
  ELSE LET install_path == IF b.install_root
                           THEN <<"install_root">> \o install_directory(b.manifest)
                           ELSE <<"install_path">>
           support_path == IF b.support_root THEN <<"support_root">>
                           ELSE install_path \o <<"gog-support">>
       IN [status |-> "Ok",
           manifest |-> b.manifest,
           install_path |-> install_path,
           tmp_path |-> install_path \o <<"!Temp">>,
           support_path |-> support_path \o support_id(b.manifest),
           dependency_manifest |-> b.dependency_manifest,
           global_dependencies |-> b.global_dependencies]

\* ------------------------------------------------------------------ utils

\* Strings are sequences of symbols: a character, a literal piece of text
\* without braces, or a whole placeholder "{p}".
MaxTokens == 3

Placeholder(param) ==
  CASE param = "base_url" -> "{base_url}"
    [] param = "path" -> "{path}"
    [] param = "token" -> "{token}"

ParamNames == {"base_url", "path", "token"}

\* serde_json values of the parameters map.
JString(v) == [kind |-> "String", v |-> v, n |-> 0]

JNumber(n) == [kind |-> "Number", v |-> <<>>, n |-> n]

JBool == [kind |-> "Bool", v |-> <<>>, n |-> 0]

ParamValues(param) ==
  CASE param = "base_url" -> {JString(<<"https://cdn">>)}
    [] param = "path" -> {JString(<<"/store">>)}
    [] param = "token" -> {JString(<<"tok">>), JNumber(17), JBool}

\* Number::to_string of a natural number.
Digit(d) == <<"0", "1", "2", "3", "4", "5", "6", "7", "8", "9">>[d + 1]

RECURSIVE to_string(_)
to_string(n) ==
  IF n < 10 THEN <<Digit(n)>> ELSE to_string(n \div 10) \o <<Digit(n % 10)>>

\* The match on the value in assemble_url.
new_value(value) ==
  CASE value.kind = "String" -> value.v
    [] value.kind = "Number" -> to_string(value.n)
    [] OTHER -> <<>>

\* str::replacen(from, to, 1): the first occurrence only.
RECURSIVE replace_first(_, _, _)
replace_first(url, from, to) ==
  IF url = <<>> THEN <<>>
  ELSE IF Head(url) = from THEN to \o Tail(url)
  ELSE <<Head(url)>> \o replace_first(Tail(url), from, to)

\* str::replace(from, to): every occurrence.
RECURSIVE replace(_, _, _)
replace(url, from, to) ==
  IF url = <<>> THEN <<>>
  ELSE IF Head(url) = from THEN to \o replace(Tail(url), from, to)
  ELSE <<Head(url)>> \o replace(Tail(url), from, to)

\* hash_to_galaxy_path: &hash[0..2], &hash[2..4] and the hash.
hash_to_galaxy_path(hash) ==
  SubSeq(hash, 1, 2) \o <<"/">> \o SubSeq(hash, 3, 4) \o <<"/">> \o hash

\* The loop of assemble_url over the first k parameters in the order the
\* HashMap iterates them.
RECURSIVE AssembleTo(_, _, _, _)
AssembleTo(endpoint, path, order, k) ==
  IF k = 0 THEN endpoint.url_format
  ELSE LET param == order[k]
           value == new_value(endpoint.parameters[param])
       IN replace(AssembleTo(endpoint, path, order, k - 1), Placeholder(param),
                  IF param = "path" THEN value \o <<"/">> \o path ELSE value)

assemble_url(endpoint, path, order) ==
  IF DOMAIN endpoint.parameters = {} THEN endpoint.url_format \o <<"/">> \o path
  ELSE AssembleTo(endpoint, path, order, Len(order))

\* The orders in which a HashMap with the keys S can be iterated.
Orders(S) ==
  {o \in [1..Cardinality(S) -> S] : \A i, j \in 1..Cardinality(S) : o[i] = o[j] => i = j}

\* The endpoints: a url_format of up to MaxTokens symbols, and parameters.
UrlSymbols == {"{base_url}", "{path}", "{token}", "?t="}

UrlFormats == UNION {[1..n -> UrlSymbols] : n \in 1..MaxTokens}

ParameterMaps ==
  UNION {{m \in [S -> UNION {ParamValues(q) : q \in S}] :
            \A q \in S : m[q] \in ParamValues(q)} : S \in SUBSET ParamNames}

Endpoints ==
  {[url_format |-> f, parameters |-> m] : f \in UrlFormats, m \in ParameterMaps}

\* compressed_md5 of a chunk, shortened to five hex digits.
Hashes == {<<"f", "1", "d", "4", "1">>, <<"a", "a", "a", "a", "a">>}

NoUrl == [of |-> "none", url |-> <<>>]

\* ------------------------------------------------------------------- Core

\* The most members a serialized token object has in the model.
MaxMembers == 3

GALAXY_CLIENT_ID == "46899977096215655"

ClientIds == {GALAXY_CLIENT_ID, "123"}

Tokens == {"token1", "token2"}

\* HashMap::insert.
insert(map, key, value) ==
  [k \in DOMAIN map \cup {key} |-> IF k = key THEN value ELSE map[k]]

\* A serialized store: text that is no JSON object of tokens, or the
\* members of the object in the order they are written.
Malformed == [json |-> FALSE, members |-> <<>>]

Serialized(members) == [json |-> TRUE, members |-> members]

SerializedStores ==
  {Malformed} \cup
  {Serialized(ms) : ms \in UNION {[1..n -> ClientIds \X Tokens] : n \in 0..MaxMembers}}

\* serde_json::from_str into a HashMap: the members are inserted in order.
RECURSIVE from_str(_, _)
from_str(members, k) ==
  IF k = 0 THEN <<>>
  ELSE insert(from_str(members, k - 1), members[k][1], members[k][2])

\* Core::deserialize_tokens: the result and the store it leaves.
deserialize_tokens(tokens, new_tokens) ==
  IF ~new_tokens.json THEN [result |-> "Serde", tokens |-> tokens]
  ELSE [result |-> "Ok",
        tokens |-> from_str(new_tokens.members, Len(new_tokens.members))]

\* An ensure_auth that accepts any token of the store.
ensure_auth_any(tokens) ==
  IF DOMAIN tokens = {} THEN "NotLoggedIn" ELSE "Ok"

\* Core::ensure_auth.
ensure_auth(tokens) ==
  IF GALAXY_CLIENT_ID \notin DOMAIN tokens THEN "NotLoggedIn" ELSE "Ok"

NoCall == [of |-> "none", arg |-> Malformed, result |-> "none"]

\* ------------------------------------------------------------- semaphores

\* The tasks download() spawns for V2 files.
MaxTasks == 4

TaskIds == 1..MaxTasks

\* file.chunks.len() of the file of task t: three chunks, two chunks, ...
ChunksOf(t) == IF t % 2 = 1 THEN 3 ELSE 2

\* A task of the JoinSet: where it stands, the chunk futures not yet
\* polled, and the chunk futures that hold a chunk permit and have a
\* spawned request running.
Queued(t) == [pc |-> "queued", todo |-> ChunksOf(t), infl |-> 0]

Ended(how) == [pc |-> how, todo |-> 0, infl |-> 0]

\* A semaphore that hands out permits without counting them.
acquire_free(permits) == permits

\* Semaphore::acquire and the drop of a permit.
acquire(permits) == permits - 1

\* A permit that is never given back.
release_none(permits) == permits

release(permits) == permits + 1

RECURSIVE ReleaseTimes(_, _)
ReleaseTimes(permits, n) ==
  IF n = 0 THEN permits ELSE release(ReleaseTimes(permits, n - 1))

RECURSIVE SumInfl(_, _)
SumInfl(tasks, n) == IF n = 0 THEN 0 ELSE tasks[n].infl + SumInfl(tasks, n - 1)

\* JoinSet::shutdown on the tasks: every task that has not returned is
\* aborted and its futures are dropped.
AbortAll(tasks) ==
  [t \in TaskIds |-> IF tasks[t].pc \in {"queued", "run"} THEN Ended("aborted")
                     ELSE tasks[t]]

\* ------------------------------------------------------------------ state

VARIABLES
  upgrade,    \* Downloader.old_manifest.is_some()
  cfg,        \* the builder inputs of the current Downloader: build, verify
  report,     \* Downloader.download_report.is_some()
  token,      \* "no", or where download() stood when the token was tripped
  pc,         \* where download() stands
  result,     \* what download() returned
  errOf,      \* the worker whose error download() returned
  disk,       \* the install root "inst" and the staging directory "tmp"
  ready,      \* ready_files of the current run
  wk,         \* the worker task of each path
  joinq,      \* finished worker tasks in completion order (JoinSet)
  fetched,    \* per path, the chunks requested from the CDN in this run
  loaded,     \* per path, the bitmap its worker started from
  renames,    \* files renamed by this run
  clean,      \* every earlier run had these inputs and ended Cancelled
  prevOkSame, \* the previous run had these inputs and returned Ok
  repair,     \* chunks of "f" found corrupted when a verify run started
  inst0,      \* the install root as the current run found it (updates)
  runs,       \* Downloaders built so far
  new_entries, \* diff(): the file lists of the new manifest
  old_entries, \* diff(): the file lists of the old manifest
  patches,     \* diff(): the file lists of the patch manifest
  diff_report, \* diff(): the DiffReport returned, or how the call ended
  kin,           \* entry kinds: the manifest generation, the report, the disk met
  kfs,           \* entry kinds: the file system
  kpc,           \* entry kinds: where download() stands
  kresult,       \* entry kinds: what download() returned
  kerr,          \* entry kinds: the step whose error download() returned
  ready_files,   \* entry kinds: ready_files of download()
  ready_patches, \* entry kinds: ready_patches of download()
  new_symlinks,  \* entry kinds: new_symlinks of download()
  kwk,           \* entry kinds: the spawned tasks and how each ended
  krequests,     \* entry kinds: the tasks that sent requests to the CDN
  kalloc,        \* entry kinds: the file system as the allocation left it
  kspace,        \* entry kinds: the result of get_required_space, or -1
  kfinished,     \* entry kinds: the progress task and its Finished event
  download_progress, \* entry kinds: the DownloadProgress of download()
  builder,       \* Builder: the fields set so far
  built,         \* Builder: what build() returned
  endpoint,      \* utils: the Endpoint of the secure link
  compressed_md5,\* utils: the compressed md5 of the chunk to fetch
  request_url,   \* utils: the URL assembled for the request, or none
  tokens,        \* Core.tokens
  last_call,     \* Core: the last method called, its argument and result
  tk,            \* semaphores: the tasks of the JoinSet
  detached,      \* semaphores: spawned chunk requests whose future was dropped
  file_permits,  \* semaphores: the permits left in file_semaphore
  chunk_permits, \* semaphores: the permits left in chunk_semaphore
  spc,           \* semaphores: where download() stands
  sresult,       \* semaphores: what download() returned
  stoken,        \* semaphores: the cancellation token is cancelled
  progress_channel,          \* progress: the events queued in the bounded channel
  progress_channel_receiver, \* progress: "held" by the Downloader, "taken", or "dropped"
  rx,            \* progress: WorkerUpdates queued in the unbounded channel
  tx,            \* progress: a sender of the unbounded channel is alive
  gpc,           \* progress: where the call of prepare() or download() stands
  rpc,           \* progress: where the progress_report task stands
  gcount,        \* progress: file lists left to allocate, then updates the workers sent
  gcalls         \* progress: calls made on this Downloader

\* The run of download() over the entry kinds.
kvars == <<kin, kfs, kpc, kresult, kerr, ready_files, ready_patches,
           new_symlinks, kwk, krequests, kalloc, kspace, kfinished,
           download_progress>>

\* The Builder and the other values the functions outside download() act on.
gvars == <<progress_channel, progress_channel_receiver, rx, tx, gpc, rpc,
           gcount, gcalls>>

pvars == <<builder, built, endpoint, compressed_md5, request_url, tokens,
           last_call, tk, detached, file_permits, chunk_permits, spc, sresult,
           stoken, gvars>>

\* The arguments and the result of one call of diff::diff.
dvars == <<new_entries, old_entries, patches, diff_report>>

vars == <<upgrade, cfg, report, token, pc, result, errOf, disk, ready, wk,
          joinq, fetched, loaded, renames, clean, prevOkSame, repair, inst0, runs,
          dvars, kvars, pvars>>

\* A worker task: where it stands, its bitmap in memory (state.chunks), the
\* chunks not yet requested and those in flight, the bytes of a V1 body
\* written, and whether it returned after the token was tripped.
NoWorker ==
  [pc |-> "none", bits |-> <<>>, todo |-> {}, infl |-> {}, pos |-> 0,
   late |-> FALSE]

\* Downloader::get_file_root(_, _, final_destination); no entry of the
\* A root that ignores the old manifest: everything under the install root.
get_file_root_install(final_destination) == "inst"

\* modelled depots is a support file.
get_file_root(final_destination) ==
  IF upgrade /\ ~final_destination THEN "tmp" ELSE "inst"

Stage == disk[get_file_root(FALSE)]

SetStage(R) == disk' = [disk EXCEPT ![get_file_root(FALSE)] = R]

\* No run over the entry kinds is going on.
IdleKinds ==
  /\ kin = NoInput
  /\ kfs = <<>>
  /\ kpc = "none"
  /\ kresult = "none"
  /\ kerr = "none"
  /\ ready_files = {}
  /\ ready_patches = {}
  /\ new_symlinks = <<>>
  /\ kwk = <<>>
  /\ krequests = {}
  /\ kalloc = <<>>
  /\ kspace = -1
  /\ kfinished = NoEvent
  /\ download_progress = NoProgress

IdleBuilder ==
  /\ builder = NewBuilder
  /\ built = NotBuilt

IdleUtils ==
  /\ endpoint = [url_format |-> <<>>, parameters |-> <<>>]
  /\ compressed_md5 = <<>>
  /\ request_url = NoUrl

\* Core::new().
IdleCore ==
  /\ tokens = <<>>
  /\ last_call = NoCall

\* No download() is going on.
IdleSemaphores ==
  /\ tk = <<>>
  /\ detached = 0
  /\ file_permits = 0
  /\ chunk_permits = 0
  /\ spc = "none"
  /\ sresult = "none"
  /\ stoken = FALSE

IdleProgress ==
  /\ progress_channel = <<>>
  /\ progress_channel_receiver = "held"
  /\ rx = 0
  /\ tx = FALSE
  /\ gpc = "idle"
  /\ rpc = "none"
  /\ gcount = 0
  /\ gcalls = 0

IdlePure ==
  /\ IdleBuilder
  /\ IdleUtils
  /\ IdleCore
  /\ IdleSemaphores
  /\ IdleProgress

IdleDiff ==
  /\ new_entries = <<>>
  /\ old_entries = <<>>
  /\ patches = <<>>
  /\ diff_report = NoReport

\* The state of the downloader before any Downloader is built.
InitDownloader ==
  /\ upgrade \in BOOLEAN
  /\ cfg = [build |-> "A", verify |-> FALSE]
  /\ report = FALSE
  /\ token = "no"
  /\ pc = "none"
  /\ result = "none"
  /\ errOf = "none"
  /\ disk = [r \in {"inst", "tmp"} |->
               IF r = "inst" /\ upgrade
               THEN [EmptyRoot EXCEPT !.dir = TRUE,
                                      !.final = [p \in Paths |-> FileOf(OldData(p))]]
               ELSE EmptyRoot]
  /\ ready = {}
  /\ wk = [p \in Paths |-> NoWorker]
  /\ joinq = <<>>
  /\ fetched = [p \in Paths |-> {}]
  /\ loaded = [p \in Paths |-> <<>>]
  /\ renames = 0
  /\ clean = TRUE
  /\ prevOkSame = FALSE
  /\ repair = {}
  /\ inst0 = EmptyRoot
  /\ runs = 0

Init ==
  /\ InitDownloader
  /\ IdleDiff
  /\ IdleKinds
  /\ IdlePure

\* Builder::build followed by nothing else: a new Downloader for build b.
NewDownloader(b, v) ==
  /\ pc \in {"none", "returned"}
  /\ runs < MaxRuns
  /\ runs' = runs + 1
  /\ cfg' = [build |-> b, verify |-> v]
  /\ report' = FALSE
  /\ token' = "no"
  /\ pc' = "built"
  /\ result' = "none"
  /\ errOf' = "none"
  /\ ready' = {}
  /\ wk' = [p \in Paths |-> NoWorker]
  /\ joinq' = <<>>
  /\ fetched' = [p \in Paths |-> {}]
  /\ loaded' = [p \in Paths |-> <<>>]
  /\ renames' = 0
  /\ clean' = (pc = "none" \/ (clean /\ cfg = cfg' /\ result = "Cancelled"))
  /\ prevOkSame' = (pc = "returned" /\ cfg = cfg' /\ result = "Ok")
  /\ repair' = {}
  /\ inst0' = IF upgrade THEN disk["inst"] ELSE EmptyRoot
  /\ UNCHANGED <<pvars, kvars, dvars, upgrade, disk>>

\* Downloader::prepare: stores the DiffReport.
Prepare ==
  /\ pc = "built"
  /\ ~report
  /\ report' = TRUE
  /\ UNCHANGED <<pvars, kvars, dvars, upgrade, cfg, token, pc, result, errOf, disk, ready, wk,
                 joinq, fetched, loaded, renames, clean, prevOkSame, repair,
                 inst0, runs>>

\* An early return placed after the creation of the install root.
DownloadNotReadyAfterRoot ==
  /\ pc = "built"
  /\ ~report
  /\ pc' = "returned"
  /\ result' = "NotReady"
  /\ disk' = [disk EXCEPT ![get_file_root(FALSE)].dir = TRUE]
  /\ UNCHANGED <<pvars, kvars, dvars, upgrade, cfg, report, token, errOf, ready, wk, joinq,
                 fetched, loaded, renames, clean, prevOkSame, repair, inst0, runs>>

\* download() with download_report == None: the early return.
DownloadNotReady ==
  /\ pc = "built"
  /\ ~report
  /\ pc' = "returned"
  /\ result' = "NotReady"
  /\ UNCHANGED <<pvars, kvars, dvars, upgrade, cfg, report, token, errOf, disk, ready, wk, joinq,
                 fetched, loaded, renames, clean, prevOkSame, repair, inst0, runs>>

\* The token of get_cancellation() is tripped by the caller.
Cancel ==
  /\ pc \in {"alloc", "join", "finalize"}
  /\ token = "no"
  /\ token' = pc
  /\ UNCHANGED <<pvars, kvars, dvars, upgrade, cfg, report, pc, result, errOf, disk, ready, wk,
                 joinq, fetched, loaded, renames, clean, prevOkSame, repair,
                 inst0, runs>>

\* --------------------------------------------------------------- verifier

\* What verify_depot_entry_state computes for entry p of build b.
EntryCheck(R, b, p) ==
  IF get_file_status(R, p) = "Done"
  THEN verify_v2_chunk_state(R.final[p], b, p, <<>>)
  ELSE verify_v2_chunk_state(R.dl[p], b, p, R.st[p].c)

\* verify_depot_entry_state, status Done: the file fails its check and is
\* renamed back to `path.download` (set_file_status Done -> Allocated).
Demoted(R, b, p) ==
  /\ p \in Entries(b)
  /\ get_file_status(R, p) = "Done"
  /\ IF Gen(b, p) = 1
     THEN calculate_md5(R.final[p].d, 0, -1) # Md5(Expected(b, p))
     ELSE ~EntryCheck(R, b, p).correct

\* verify_depot_entry_state, status Partial of a V2 file whose marked
\* chunks do not all match: the new bitmap goes to write_new_chunk_state
\* with the path of the `.download` sidecar.
PartialRewritten(R, b, p) ==
  /\ p \in Entries(b)
  /\ get_file_status(R, p) = "Partial"
  /\ Gen(b, p) = 2
  /\ ~EntryCheck(R, b, p).correct

\* Downloader::update_state on the staging root R.
update_state(R, b) ==
  [R EXCEPT
     !.final = [p \in Paths |-> IF Demoted(R, b, p) THEN NoFile ELSE R.final[p]],
     !.dl = [p \in Paths |-> IF Demoted(R, b, p) THEN R.final[p] ELSE R.dl[p]],
     !.st = [p \in Paths |->
               IF Demoted(R, b, p) /\ Gen(b, p) = 2 /\ NChunks(b, p) > 1
               THEN Bitmap(EntryCheck(R, b, p).new_state)
               ELSE R.st[p]],
     !.dlst = [p \in Paths |->
                 IF PartialRewritten(R, b, p)
                 THEN Bitmap(EntryCheck(R, b, p).new_state)
                 ELSE R.dlst[p]]]

\* The chunks of p that hold a corrupted byte, when the final file is the
\* manifest's file but for corrupted bytes; {} otherwise.
DamagedChunks(R, b, p) ==
  IF /\ p \in Entries(b)
     /\ R.final[p].e
     /\ Len(R.final[p].d) = EntrySize(b, p)
     /\ \A k \in 1..EntrySize(b, p) :
           R.final[p].d[k] \in {Expected(b, p)[k], -1}
  THEN {i \in 1..NChunks(b, p) :
          \E k \in 1..ChunkSizes(b, p)[i] :
             R.final[p].d[ChunkOffset(b, p, i) + k] = -1}
  ELSE {}

\* ----------------------------------------------------------- download()

\* download() up to the verification: the staging root is created, the
\* build marker is compared and rewritten, and the state is verified when
\* the verify flag is set or another build's marker was found.
DownloadStart ==
  /\ pc = "built"
  /\ report
  /\ LET b == cfg.build
         R0 == [Stage EXCEPT !.dir = TRUE]
         should_verify == cfg.verify \/ (R0.marker # "none" /\ R0.marker # b)
         R1 == [R0 EXCEPT !.marker = b]
         R2 == IF should_verify THEN update_state(R1, b) ELSE R1
     IN /\ SetStage(R2)
        /\ renames' = IF should_verify
                      THEN Cardinality({p \in Paths : Demoted(R1, b, p)})
                      ELSE 0
        /\ repair' = IF cfg.verify /\ Gen(b, "f") = 2 /\ NChunks(b, "f") > 1
                     THEN DamagedChunks(R1, b, "f") ELSE {}
  /\ pc' = "alloc"
  /\ UNCHANGED <<pvars, kvars, dvars, upgrade, cfg, report, token, result, errOf, ready, wk, joinq,
                 fetched, loaded, clean, prevOkSame, inst0, runs>>

\* The allocation loop over the download list: NotInitialized and Allocated
\* entries get a preallocated `.download`, Done entries are ready.
AllocatedRoot(R, b) ==
  [R EXCEPT !.dl = [p \in Paths |->
      IF p \in Entries(b)
         /\ get_file_status(R, p) \in {"NotInitialized", "Allocated"}
      THEN Allocate(R.dl[p], EntrySize(b, p))
      ELSE R.dl[p]]]

ReadyFiles(R, b) == {p \in Entries(b) : get_file_status(R, p) = "Done"}

\* Allocation, secure links and the spawning of one task per entry that is
\* not ready; the tasks start waiting for a file permit.
AllocateAndSpawn ==
  /\ pc = "alloc"
  /\ SetStage(AllocatedRoot(Stage, cfg.build))
  /\ ready' = ReadyFiles(Stage, cfg.build)
  /\ wk' = [p \in Paths |->
              IF p \in Entries(cfg.build) \ ReadyFiles(Stage, cfg.build)
              THEN [NoWorker EXCEPT !.pc = "queued"] ELSE NoWorker]
  /\ pc' = "join"
  /\ UNCHANGED <<pvars, kvars, dvars, upgrade, cfg, report, token, result, errOf, joinq, fetched,
                 loaded, renames, clean, prevOkSame, repair, inst0, runs>>

\* The secure-link request of the list fails after its files are allocated.
AllocateFail ==
  /\ pc = "alloc"
  /\ SetStage(AllocatedRoot(Stage, cfg.build))
  /\ pc' = "returned"
  /\ result' = "Err"
  /\ UNCHANGED <<pvars, kvars, dvars, upgrade, cfg, report, token, errOf, ready, wk, joinq, fetched,
                 loaded, renames, clean, prevOkSame, repair, inst0, runs>>

\* ---------------------------------------------------------------- workers

\* The worker tasks that hold a file permit.
Active == {p \in Paths : wk[p].pc \in {"run", "wrote", "renamed"}}

\* The chunk requests that hold a chunk permit.
InFlight == UNION {{<<p, i>> : i \in wk[p].infl} : p \in Paths}

\* state.chunks.resize(n, false)
Resize(bits, n) == [i \in 1..n |-> i <= Len(bits) /\ bits[i]]

\* load_chunk_state(..).unwrap_or_default() followed by the resize.
LoadedBits(R, b, p) ==
  Resize(IF R.st[p].e /\ R.st[p].v THEN R.st[p].c ELSE <<>>, NChunks(b, p))

\* A worker that ignores the loaded bitmap and requests every chunk.
ChunksToFetchAll(bits) == 1..Len(bits)

\* The chunks worker::v2 builds a request for: those whose bit is false.
ChunksToFetch(bits) == {i \in 1..Len(bits) : ~bits[i]}

Finish(p, how) ==
  /\ wk' = [wk EXCEPT ![p] = [NoWorker EXCEPT !.pc = how,
                                               !.late = (token # "no")]]
  /\ joinq' = Append(joinq, p)

\* worker::v2 up to the chunk loop: takes a file permit, opens (creates)
\* `.download` and, for more than one chunk, `.state`, loads the bitmap.
W2_Start(p) ==
  /\ pc = "join"
  /\ wk[p].pc = "queued"
  /\ Gen(cfg.build, p) = 2
  /\ Cardinality(Active) < FilePermits
  /\ LET R == Stage
         bits == LoadedBits(R, cfg.build, p)
     IN /\ SetStage([R EXCEPT
               !.dl[p] = IF R.dl[p].e THEN R.dl[p] ELSE FileOf(<<>>),
               !.st[p] = IF NChunks(cfg.build, p) > 1 /\ ~R.st[p].e
                         THEN EmptyState ELSE R.st[p]])
        /\ wk' = [wk EXCEPT ![p].pc = "run", ![p].bits = bits,
                            ![p].todo = ChunksToFetch(bits)]
        /\ loaded' = [loaded EXCEPT ![p] = bits]
  /\ UNCHANGED <<pvars, kvars, dvars, upgrade, cfg, report, token, pc, result, errOf, ready, joinq,
                 fetched, renames, clean, prevOkSame, repair, inst0, runs>>

\* A chunk future is polled: it takes a chunk permit and sends its GET.
W2_Request(p, i) ==
  /\ pc = "join"
  /\ wk[p].pc = "run"
  /\ i \in wk[p].todo
  /\ \A j \in wk[p].todo : i <= j
  /\ Cardinality(wk[p].infl) < BufferUnordered
  /\ Cardinality(InFlight) < ChunkPermits
  /\ wk' = [wk EXCEPT ![p].todo = @ \ {i}, ![p].infl = @ \cup {i}]
  /\ fetched' = [fetched EXCEPT ![p] = @ \cup {i}]
  /\ UNCHANGED <<pvars, kvars, dvars, upgrade, cfg, report, token, pc, result, errOf, disk, ready,
                 joinq, loaded, renames, clean, prevOkSame, repair, inst0, runs>>

\* A chunk arrives: it is written at its offset and its bit is set in memory.
W2_Chunk(p, i) ==
  /\ pc = "join"
  /\ wk[p].pc = "run"
  /\ i \in wk[p].infl
  /\ SetStage([Stage EXCEPT !.dl[p].d =
        WriteAt(@, ChunkOffset(cfg.build, p, i), ChunkData(cfg.build, p, i))])
  /\ wk' = [wk EXCEPT ![p].infl = @ \ {i}, ![p].bits[i] = TRUE,
                      ![p].pc = IF NChunks(cfg.build, p) > 1
                                THEN "wrote" ELSE "run"]
  /\ UNCHANGED <<pvars, kvars, dvars, upgrade, cfg, report, token, pc, result, errOf, ready, joinq,
                 fetched, loaded, renames, clean, prevOkSame, repair, inst0, runs>>

\* write_chunk_state: the bitmap in memory is persisted in `.state`.
W2_State(p) ==
  /\ pc = "join"
  /\ wk[p].pc = "wrote"
  /\ SetStage([Stage EXCEPT !.st[p] = Bitmap(wk[p].bits)])
  /\ wk' = [wk EXCEPT ![p].pc = "run"]
  /\ UNCHANGED <<pvars, kvars, dvars, upgrade, cfg, report, token, pc, result, errOf, ready, joinq,
                 fetched, loaded, renames, clean, prevOkSame, repair, inst0, runs>>

\* A chunk request or its decompression fails: the worker returns the error.
W2_ChunkFail(p, i) ==
  /\ pc = "join"
  /\ wk[p].pc = "run"
  /\ i \in wk[p].infl
  /\ Finish(p, "failed")
  /\ UNCHANGED <<pvars, kvars, dvars, upgrade, cfg, report, token, pc, result, errOf, disk, ready,
                 fetched, loaded, renames, clean, prevOkSame, repair, inst0, runs>>

\* All chunks are written: `.download` is renamed to the final path.
W2_Rename(p) ==
  /\ pc = "join"
  /\ wk[p].pc = "run"
  /\ Gen(cfg.build, p) = 2
  /\ wk[p].todo = {}
  /\ wk[p].infl = {}
  /\ SetStage([Stage EXCEPT !.final[p] = Stage.dl[p], !.dl[p] = NoFile])
  /\ renames' = renames + 1
  /\ wk' = [wk EXCEPT ![p].pc = "renamed"]
  /\ UNCHANGED <<pvars, kvars, dvars, upgrade, cfg, report, token, pc, result, errOf, ready, joinq,
                 fetched, loaded, clean, prevOkSame, repair, inst0, runs>>

\* remove_file(state_path), its error ignored; the worker returns Ok.
W2_RemoveState(p) ==
  /\ pc = "join"
  /\ wk[p].pc = "renamed"
  /\ SetStage([Stage EXCEPT !.st[p] = NoState])
  /\ Finish(p, "done")
  /\ UNCHANGED <<pvars, kvars, dvars, upgrade, cfg, report, token, pc, result, errOf, ready,
                 fetched, loaded, renames, clean, prevOkSame, repair, inst0, runs>>

\* worker::v1 up to the body stream: takes a file permit, opens (creates)
\* `.download` and sends the range request.
W1_Start(p) ==
  /\ pc = "join"
  /\ wk[p].pc = "queued"
  /\ Gen(cfg.build, p) = 1
  /\ Cardinality(Active) < FilePermits
  /\ SetStage([Stage EXCEPT !.dl[p] = IF @.e THEN @ ELSE FileOf(<<>>)])
  /\ wk' = [wk EXCEPT ![p].pc = "run"]
  /\ fetched' = [fetched EXCEPT ![p] = {1}]
  /\ UNCHANGED <<pvars, kvars, dvars, upgrade, cfg, report, token, pc, result, errOf, ready, joinq,
                 loaded, renames, clean, prevOkSame, repair, inst0, runs>>

\* One piece of the body is appended at the handle's position.
W1_Write(p) ==
  /\ pc = "join"
  /\ wk[p].pc = "run"
  /\ Gen(cfg.build, p) = 1
  /\ wk[p].pos < EntrySize(cfg.build, p)
  /\ SetStage([Stage EXCEPT !.dl[p].d =
        WriteAt(@, wk[p].pos, <<Expected(cfg.build, p)[wk[p].pos + 1]>>)])
  /\ wk' = [wk EXCEPT ![p].pos = @ + 1]
  /\ UNCHANGED <<pvars, kvars, dvars, upgrade, cfg, report, token, pc, result, errOf, ready, joinq,
                 fetched, loaded, renames, clean, prevOkSame, repair, inst0, runs>>

\* The request or the body stream fails: the worker returns the error.
W1_Fail(p) ==
  /\ pc = "join"
  /\ wk[p].pc = "run"
  /\ Gen(cfg.build, p) = 1
  /\ wk[p].pos < EntrySize(cfg.build, p)
  /\ Finish(p, "failed")
  /\ UNCHANGED <<pvars, kvars, dvars, upgrade, cfg, report, token, pc, result, errOf, disk, ready,
                 fetched, loaded, renames, clean, prevOkSame, repair, inst0, runs>>

\* The body ended: `.download` is renamed to the final path.
W1_Rename(p) ==
  /\ pc = "join"
  /\ wk[p].pc = "run"
  /\ Gen(cfg.build, p) = 1
  /\ wk[p].pos = EntrySize(cfg.build, p)
  /\ SetStage([Stage EXCEPT !.final[p] = Stage.dl[p], !.dl[p] = NoFile])
  /\ renames' = renames + 1
  /\ Finish(p, "done")
  /\ UNCHANGED <<pvars, kvars, dvars, upgrade, cfg, report, token, pc, result, errOf, ready,
                 fetched, loaded, clean, prevOkSame, repair, inst0, runs>>

\* ------------------------------------------------------------- supervisor

Running == {p \in Paths : wk[p].pc \in {"queued", "run", "wrote", "renamed"}}

\* A shutdown that aborts nothing.
ShutdownNone(w) == w

\* JoinSet::shutdown: every task that has not finished is aborted.
Shutdown(w) ==
  [p \in Paths |->
     IF w[p].pc \in {"queued", "run", "wrote", "renamed"}
     THEN [NoWorker EXCEPT !.pc = "aborted"]
     ELSE w[p]]

\* select!: join_next() yields a task that returned Ok.
JoinOk ==
  /\ pc = "join"
  /\ joinq # <<>>
  /\ wk[Head(joinq)].pc = "done"
  /\ wk' = [wk EXCEPT ![Head(joinq)].pc = "joined"]
  /\ joinq' = Tail(joinq)
  /\ UNCHANGED <<pvars, kvars, dvars, upgrade, cfg, report, token, pc, result, errOf, disk, ready,
                 fetched, loaded, renames, clean, prevOkSame, repair, inst0, runs>>

\* select!: join_next() yields a task that returned an error: the set is
\* shut down and the error is returned.
JoinErr ==
  /\ pc = "join"
  /\ joinq # <<>>
  /\ wk[Head(joinq)].pc = "failed"
  /\ wk' = Shutdown(wk)
  /\ joinq' = Tail(joinq)
  /\ pc' = "returned"
  /\ result' = "Err"
  /\ errOf' = Head(joinq)
  /\ UNCHANGED <<pvars, kvars, dvars, upgrade, cfg, report, token, disk, ready, fetched, loaded,
                 renames, clean, prevOkSame, repair, inst0, runs>>

\* select!: join_next() yields None, the set is empty: the loop ends.
JoinNone ==
  /\ pc = "join"
  /\ joinq = <<>>
  /\ \A p \in Paths : wk[p].pc \in {"none", "joined"}
  /\ pc' = "finalize"
  /\ UNCHANGED <<pvars, kvars, dvars, upgrade, cfg, report, token, result, errOf, disk, ready, wk,
                 joinq, fetched, loaded, renames, clean, prevOkSame, repair,
                 inst0, runs>>

\* select!: the cancelled() branch: the set is shut down, Cancelled returned.
JoinCancelled ==
  /\ pc = "join"
  /\ token # "no"
  /\ wk' = Shutdown(wk)
  /\ pc' = "returned"
  /\ result' = "Cancelled"
  /\ UNCHANGED <<pvars, kvars, dvars, upgrade, cfg, report, token, errOf, disk, ready, joinq,
                 fetched, loaded, renames, clean, prevOkSame, repair, inst0, runs>>

\* The files of the download list are moved from `!Temp` to the install
\* root and `!Temp` is removed.
Promoted(d, b) ==
  [r \in {"inst", "tmp"} |->
     IF r = get_file_root(TRUE)
     THEN [d[r] EXCEPT !.final = [p \in Paths |->
              IF p \in Entries(b) THEN d[get_file_root(FALSE)].final[p]
              ELSE @[p]]]
     ELSE EmptyRoot]

\* The finalize steps of download(): promotion when an old manifest was
\* given, then the removal of the build marker; Ok is returned.
Finalize ==
  /\ pc = "finalize"
  /\ disk' = IF upgrade THEN Promoted(disk, cfg.build)
             ELSE [disk EXCEPT !["inst"].marker = "none"]
  /\ renames' = IF upgrade THEN renames + Cardinality(Entries(cfg.build))
                ELSE renames
  /\ pc' = "returned"
  /\ result' = "Ok"
  /\ UNCHANGED <<pvars, kvars, dvars, upgrade, cfg, report, token, errOf, ready, wk, joinq, fetched,
                 loaded, clean, prevOkSame, repair, inst0, runs>>

\* A byte of the completed multi-chunk file "f" is damaged on disk between
\* two runs.
Corrupt(k) ==
  /\ pc = "returned"
  /\ result = "Ok"
  /\ runs < MaxRuns
  /\ NChunks(cfg.build, "f") > 1
  /\ disk["inst"].final["f"].e
  /\ k <= Len(disk["inst"].final["f"].d)
  /\ disk["inst"].final["f"].d[k] # -1
  /\ disk' = [disk EXCEPT !["inst"].final["f"].d[k] = -1]
  /\ UNCHANGED <<pvars, kvars, dvars, upgrade, cfg, report, token, pc, result, errOf, ready, wk,
                 joinq, fetched, loaded, renames, clean, prevOkSame, repair,
                 inst0, runs>>

\* ---------------------------------------------------------- specification

Next ==
  \/ \E b \in Builds, v \in BOOLEAN : NewDownloader(b, v)
  \/ Prepare
  \/ DownloadNotReady
  \/ Cancel
  \/ DownloadStart
  \/ AllocateAndSpawn
  \/ AllocateFail
  \/ \E p \in Paths : W2_Start(p)
  \/ \E p \in Paths, i \in 1..3 : W2_Request(p, i)
  \/ \E p \in Paths, i \in 1..3 : W2_Chunk(p, i)
  \/ \E p \in Paths : W2_State(p)
  \/ \E p \in Paths, i \in 1..3 : W2_ChunkFail(p, i)
  \/ \E p \in Paths : W2_Rename(p)
  \/ \E p \in Paths : W2_RemoveState(p)
  \/ \E p \in Paths : W1_Start(p)
  \/ \E p \in Paths : W1_Write(p)
  \/ \E p \in Paths : W1_Fail(p)
  \/ \E p \in Paths : W1_Rename(p)
  \/ JoinOk
  \/ JoinErr
  \/ JoinNone
  \/ JoinCancelled
  \/ Finalize

Spec == Init /\ [][Next]_vars

\* The same program on a disk whose completed files may get damaged.
NextCorrupt ==
  \/ Next
  \/ \E k \in 1..4 : Corrupt(k)

SpecCorrupt == Init /\ [][NextCorrupt]_vars

\* The inputs of one call of diff(): a new manifest of one or two products,
\* an old manifest, and either no patch manifest or one with a Diff for "a".
NewLists ==
  {<<>>}
  \cup {<<FileList("P", s)>> : s \in SeqsUpTo(NewUniverse, MaxFiles) \ {<<>>}}
  \cup {<<FileList("P", <<e>>), FileList("Q", <<f>>)>> :
          e \in NewUniverse, f \in NewUniverse}

OldLists ==
  {<<>>} \cup {<<FileList("P", s)>> : s \in SeqsUpTo(OldUniverse, MaxFiles) \ {<<>>}}

PatchLists == {<<>>, <<FileList("P", <<V2Diff("a")>>)>>}

InitDiff ==
  /\ InitDownloader
  /\ IdleKinds
  /\ IdlePure
  /\ upgrade = FALSE
  /\ new_entries \in NewLists
  /\ old_entries \in OldLists
  /\ patches \in PatchLists
  /\ diff_report = NoReport

\* One call of diff::diff on the inputs.
Diff ==
  /\ diff_report = NoReport
  /\ diff_report' = diff(new_entries, old_entries, patches)
  /\ UNCHANGED <<pvars, kvars, new_entries, old_entries, patches, upgrade, cfg, report,
                 token, pc, result, errOf, disk, ready, wk, joinq, fetched,
                 loaded, renames, clean, prevOkSame, repair, inst0, runs>>

NextDiff == Diff

SpecDiff == InitDiff /\ [][NextDiff]_vars

\* A Downloader that was built and prepared, with or without an old
\* manifest, over one of the inputs.
InitKinds ==
  /\ InitDownloader
  /\ IdleDiff
  /\ IdlePure
  /\ kin \in {in \in KInputs(upgrade) : KValid(upgrade, in)}
  /\ kfs = kin.fs0
  /\ kpc = "prepared"
  /\ kresult = "none"
  /\ kerr = "none"
  /\ ready_files = {}
  /\ ready_patches = {}
  /\ new_symlinks = <<>>
  /\ kwk = <<>>
  /\ krequests = {}
  /\ kalloc = <<>>
  /\ kspace = -1
  /\ kfinished = NoEvent
  /\ download_progress = NoProgress

mvars == <<upgrade, cfg, report, token, pc, result, errOf, disk, ready, wk,
           joinq, fetched, loaded, renames, clean, prevOkSame, repair, inst0, runs>>

\* Downloader::get_required_space on the prepared Downloader.
GetRequiredSpace ==
  /\ kpc = "prepared"
  /\ kspace = -1
  /\ kspace' = get_required_space(kin, upgrade, kfs)
  /\ UNCHANGED <<pvars, mvars, dvars, kin, kfs, kpc, kresult, kerr, ready_files,
                 ready_patches, new_symlinks, kwk, krequests, kalloc, kfinished,
                 download_progress>>

\* download() up to the join loop: the allocation and the spawn loops.
AllocateKinds ==
  /\ kpc = "prepared"
  /\ LET a == Allocation(kin, upgrade, kfs)
     IN /\ kfs' = a.fs
        /\ ready_files' = a.ready
        /\ ready_patches' = a.ready_patches
        /\ new_symlinks' = a.links
        /\ kwk' = [t \in Tasks(kin, a) |-> "spawned"]
        /\ kalloc' = a.fs
        /\ download_progress' = a.progress
  /\ kfinished' = Looping
  /\ kpc' = "join"
  /\ UNCHANGED <<pvars, mvars, dvars, kin, kresult, kerr, krequests, kspace>>

\* The bytes a worker that returns Ok reports as downloaded and as written:
\* the chunks whose bits it did not find set.
WorkerBytes(in, fs, stage, t) ==
  CASE t = "b" -> SizeBlob
    [] t = "p.diff" -> SizeDiff
    [] t = "w" -> SizeW - (IF in.gen = 2 THEN BitsBytes(fs, stage, "w") ELSE 0)
    [] OTHER -> 0

\* The DownloadProgress once the updates of the workers of S were taken.
Reported_by(progress, in, fs, stage, S) ==
  LET sum == (IF "b" \in S THEN WorkerBytes(in, fs, stage, "b") ELSE 0)
             + (IF "w" \in S THEN WorkerBytes(in, fs, stage, "w") ELSE 0)
             + (IF "p.diff" \in S THEN WorkerBytes(in, fs, stage, "p.diff") ELSE 0)
  IN [progress EXCEPT !.downloaded = @ + sum, !.written = @ + sum]

\* Every worker returned Ok and join_next() returned None.
WorkersOk ==
  /\ kpc = "join"
  /\ download_progress' =
       Reported_by(download_progress, kin, kfs,
                   get_file_root_for(upgrade, kin.gen, FALSE, "P", FALSE), DOMAIN kwk)
  /\ kfs' = CompleteAll(kfs, get_file_root_for(upgrade, kin.gen, FALSE, "P", FALSE),
                        DOMAIN kwk)
  /\ kwk' = [t \in DOMAIN kwk |-> "ok"]
  /\ krequests' = {t \in DOMAIN kwk : ~IsLink(t)}
  /\ kpc' = "finalize"
  /\ UNCHANGED <<pvars, mvars, dvars, kin, kresult, kerr, ready_files, ready_patches,
                 new_symlinks, kalloc, kspace, kfinished>>

\* The worker t returned an error after the workers of S had returned Ok;
\* the others are aborted by shutdown() and download() returns the error.
WorkerFails(t, S) ==
  /\ kpc = "join"
  /\ t \in DOMAIN kwk
  /\ ~IsLink(t)
  /\ S \subseteq DOMAIN kwk \ {t}
  /\ download_progress' =
       Reported_by(download_progress, kin, kfs,
                   get_file_root_for(upgrade, kin.gen, FALSE, "P", FALSE), S)
  /\ kfs' = CompleteAll(kfs, get_file_root_for(upgrade, kin.gen, FALSE, "P", FALSE), S)
  /\ kwk' = [u \in DOMAIN kwk |->
               IF u = t THEN "failed" ELSE IF u \in S THEN "ok" ELSE "aborted"]
  /\ krequests' = {u \in S \cup {t} : ~IsLink(u)}
  /\ kpc' = "returned"
  /\ kresult' = "Err"
  /\ kerr' = "worker"
  /\ UNCHANGED <<pvars, mvars, dvars, kin, ready_files, ready_patches, new_symlinks,
                 kalloc, kspace, kfinished>>

\* The token was cancelled while download() waited in the join loop, after
\* the workers of S had returned Ok: shutdown() aborts the others and
\* download() returns Cancelled.
CancelKinds(S) ==
  /\ kpc = "join"
  /\ S \subseteq DOMAIN kwk
  /\ download_progress' =
       Reported_by(download_progress, kin, kfs,
                   get_file_root_for(upgrade, kin.gen, FALSE, "P", FALSE), S)
  /\ kfs' = CompleteAll(kfs, get_file_root_for(upgrade, kin.gen, FALSE, "P", FALSE), S)
  /\ kwk' = [u \in DOMAIN kwk |-> IF u \in S THEN "ok" ELSE "aborted"]
  /\ krequests' = {u \in S : ~IsLink(u)}
  /\ kpc' = "returned"
  /\ kresult' = "Cancelled"
  /\ kerr' = "cancel"
  /\ UNCHANGED <<pvars, mvars, dvars, kin, ready_files, ready_patches, new_symlinks,
                 kalloc, kspace, kfinished>>

\* One step of download() after the join loop left the file system and the
\* error of x: download() goes on to the next step, or returns the error,
\* or returns Ok after the last step.
FinalizeStep(x, next, wrote) ==
  /\ download_progress' =
       [download_progress EXCEPT !.written = @ + (IF x.err = "none" THEN wrote ELSE 0)]
  /\ kfs' = x.fs
  /\ kerr' = x.err
  /\ kresult' = IF x.err # "none" THEN "Err"
                ELSE IF next = "returned" THEN "Ok" ELSE kresult
  /\ kpc' = IF x.err # "none" THEN "returned" ELSE next
  /\ UNCHANGED <<pvars, mvars, dvars, kin, ready_files, ready_patches, new_symlinks,
                 kwk, krequests, kalloc, kspace, kfinished>>

\* The extraction of the small files container.
ExtractKinds ==
  /\ kpc = "finalize"
  /\ FinalizeStep(Extract(kin, upgrade, [fs |-> kfs, err |-> "none"]), "patch",
                  IF kin.sfc /\ get_file_status_at(kfs, get_file_root_for(upgrade, kin.gen,
                                                       FALSE, "P", FALSE), "s") # "Done"
                  THEN EntryBytes(kin, "s") ELSE 0)

\* The application of the patches.
PatchKinds ==
  /\ kpc = "patch"
  /\ FinalizeStep(Patch(kin, upgrade, [fs |-> kfs, err |-> "none"]), "promote",
                  IF kin.patches # <<>> THEN SizeP ELSE 0)

\* The move from !Temp to the destinations and the removal of !Temp.
PromoteKinds ==
  /\ kpc = "promote"
  /\ FinalizeStep(Promote(kin, upgrade, [fs |-> kfs, err |-> "none"]), "progress", 0)

\* drop(tx) and the wait for the progress task, which leaves its loop and
\* offers Finished (taken by the receiver within the second, or not).
AwaitProgressReport(sent) ==
  /\ kpc = "progress"
  /\ kfinished' = Finished(sent, kfs, FALSE)
  /\ kpc' = "symlinks"
  /\ UNCHANGED <<pvars, mvars, dvars, kin, kfs, kresult, kerr, ready_files,
                 ready_patches, new_symlinks, kwk, krequests, kalloc, kspace,
                 download_progress>>

\* The creation of the links.
SymlinksKinds ==
  /\ kpc = "symlinks"
  /\ FinalizeStep(SymlinksTo([fs |-> kfs, err |-> "none"], new_symlinks,
                             Len(new_symlinks)), "delete", 0)

\* The removal of the deleted entries.
DeleteKinds ==
  /\ kpc = "delete"
  /\ FinalizeStep(DeleteTo(kin, upgrade, [fs |-> kfs, err |-> "none"],
                           Len(kin.deleted)), "marker", 0)

\* The removal of the marker, and the return of Ok.
RemoveMarkerKinds ==
  /\ kpc = "marker"
  /\ FinalizeStep(RemoveMarker(kin, upgrade, [fs |-> kfs, err |-> "none"]), "returned",
                  0)

\* download() returned an error before drop(tx): the senders are dropped
\* with its frame, the progress task sees Disconnected and offers Finished.
ProgressReportEnds(sent) ==
  /\ kpc = "returned"
  /\ kfinished.state = "running"
  /\ kfinished' = Finished(sent, kfs, TRUE)
  /\ UNCHANGED <<pvars, mvars, dvars, kin, kfs, kpc, kresult, kerr, ready_files,
                 ready_patches, new_symlinks, kwk, krequests, kalloc, kspace,
                 download_progress>>

NextKinds ==
  \/ GetRequiredSpace
  \/ AllocateKinds
  \/ WorkersOk
  \/ \E t \in {"b", "w", "p.diff"}, S \in SUBSET {"b", "w", "l", "p.diff"} :
       WorkerFails(t, S)
  \/ \E S \in SUBSET {"b", "w", "l", "p.diff"} : CancelKinds(S)
  \/ ExtractKinds
  \/ PatchKinds
  \/ PromoteKinds
  \/ \E sent \in BOOLEAN : AwaitProgressReport(sent)
  \/ SymlinksKinds
  \/ DeleteKinds
  \/ RemoveMarkerKinds
  \/ \E sent \in BOOLEAN : ProgressReportEnds(sent)

SpecKinds == InitKinds /\ [][NextKinds]_vars

\* The methods of the Builder, each on a Builder that was not built yet.
pmvars == <<mvars, dvars, kvars, gvars>>

bvars == <<builder, built>>

uvars == <<endpoint, compressed_md5, request_url>>

cvars == <<tokens, last_call>>

svars == <<tk, detached, file_permits, chunk_permits, spc, sresult, stoken>>

BuilderCore ==
  /\ built = NotBuilt
  /\ builder' = [builder EXCEPT !.core = TRUE]
  /\ UNCHANGED <<pmvars, uvars, cvars, svars, built>>

BuilderManifest(m) ==
  /\ built = NotBuilt
  /\ builder' = [builder EXCEPT !.manifest = m]
  /\ UNCHANGED <<pmvars, uvars, cvars, svars, built>>

BuilderInstallRoot ==
  /\ built = NotBuilt
  /\ builder' = [builder EXCEPT !.install_root = TRUE]
  /\ UNCHANGED <<pmvars, uvars, cvars, svars, built>>

BuilderInstallPath ==
  /\ built = NotBuilt
  /\ builder' = [builder EXCEPT !.install_path = TRUE]
  /\ UNCHANGED <<pmvars, uvars, cvars, svars, built>>

BuilderSupportRoot ==
  /\ built = NotBuilt
  /\ builder' = [builder EXCEPT !.support_root = TRUE]
  /\ UNCHANGED <<pmvars, uvars, cvars, svars, built>>

BuilderGameDependencies ==
  /\ built = NotBuilt
  /\ builder' = [builder EXCEPT !.dependency_manifest = TRUE]
  /\ UNCHANGED <<pmvars, uvars, cvars, svars, built>>

BuilderGlobalDependencies(dependencies) ==
  /\ built = NotBuilt
  /\ builder' = [builder EXCEPT !.dependency_manifest = TRUE,
                                !.global_dependencies = dependencies]
  /\ UNCHANGED <<pmvars, uvars, cvars, svars, built>>

BuilderBuild ==
  /\ built = NotBuilt
  /\ built' = build(builder)
  /\ UNCHANGED <<pmvars, uvars, cvars, svars, builder>>

InitBuilder ==
  /\ InitDownloader
  /\ upgrade = FALSE
  /\ IdleDiff
  /\ IdleKinds
  /\ IdlePure

NextBuilder ==
  \/ BuilderCore
  \/ \E m \in {"V1", "V2"} : BuilderManifest(m)
  \/ BuilderInstallRoot
  \/ BuilderInstallPath
  \/ BuilderSupportRoot
  \/ BuilderGameDependencies
  \/ \E dependencies \in {<<>>, <<"MSVC2017">>} : BuilderGlobalDependencies(dependencies)
  \/ BuilderBuild

SpecBuilder == InitBuilder /\ [][NextBuilder]_vars

\* One request of a worker over any endpoint: the URL of a chunk of a V2
\* file, or of main.bin for a V1 file.
InitUtils ==
  /\ InitDownloader
  /\ upgrade = FALSE
  /\ IdleDiff
  /\ IdleKinds
  /\ IdleProgress
  /\ IdleBuilder
  /\ IdleCore
  /\ IdleSemaphores
  /\ endpoint \in Endpoints
  /\ compressed_md5 \in Hashes
  /\ request_url = NoUrl

ChunkUrl(order) ==
  /\ request_url = NoUrl
  /\ order \in Orders(DOMAIN endpoint.parameters)
  /\ request_url' = [of |-> "chunk",
                     url |-> assemble_url(endpoint, hash_to_galaxy_path(compressed_md5),
                                          order)]
  /\ UNCHANGED <<pmvars, bvars, cvars, svars, endpoint, compressed_md5>>

MainBinUrl(order) ==
  /\ request_url = NoUrl
  /\ order \in Orders(DOMAIN endpoint.parameters)
  /\ request_url' = [of |-> "main.bin",
                     url |-> assemble_url(endpoint, <<"main.bin">>, order)]
  /\ UNCHANGED <<pmvars, bvars, cvars, svars, endpoint, compressed_md5>>

NextUtils ==
  \/ \E order \in UNION {Orders(S) : S \in SUBSET ParamNames} : ChunkUrl(order)
  \/ \E order \in UNION {Orders(S) : S \in SUBSET ParamNames} : MainBinUrl(order)

SpecUtils == InitUtils /\ [][NextUtils]_vars

\* The methods of one Core that read or write its token store.
InitCore ==
  /\ InitDownloader
  /\ upgrade = FALSE
  /\ IdleDiff
  /\ IdleKinds
  /\ IdlePure

DeserializeTokens(new_tokens) ==
  /\ LET r == deserialize_tokens(tokens, new_tokens)
     IN /\ tokens' = r.tokens
        /\ last_call' = [of |-> "deserialize_tokens", arg |-> new_tokens,
                         result |-> r.result]
  /\ UNCHANGED <<pmvars, svars, bvars, uvars>>

EnsureAuth ==
  /\ last_call' = [of |-> "ensure_auth", arg |-> Malformed,
                   result |-> ensure_auth(tokens)]
  /\ UNCHANGED <<pmvars, svars, bvars, uvars, tokens>>

\* get_token_with_code with a code the server accepts: the store is
\* cleared and the Galaxy token stored.
GetTokenWithCode(new_token) ==
  /\ tokens' = insert(<<>>, GALAXY_CLIENT_ID, new_token)
  /\ last_call' = [of |-> "get_token_with_code", arg |-> Malformed, result |-> "Ok"]
  /\ UNCHANGED <<pmvars, svars, bvars, uvars>>

\* obtain_token for a client without a token or with an expired one, the
\* server answering with new_token; NotLoggedIn without a Galaxy token.
ObtainToken(client_id, new_token) ==
  /\ tokens' = IF ensure_auth(tokens) = "Ok" THEN insert(tokens, client_id, new_token)
               ELSE tokens
  /\ last_call' = [of |-> "obtain_token", arg |-> Malformed,
                   result |-> ensure_auth(tokens)]
  /\ UNCHANGED <<pmvars, svars, bvars, uvars>>

NextCore ==
  \/ \E new_tokens \in SerializedStores : DeserializeTokens(new_tokens)
  \/ EnsureAuth
  \/ \E new_token \in Tokens : GetTokenWithCode(new_token)
  \/ \E client_id \in ClientIds, new_token \in Tokens : ObtainToken(client_id, new_token)

SpecCore == InitCore /\ [][NextCore]_vars

\* download() from the creation of the semaphores to the end of the join
\* loop, over MaxTasks multi-chunk V2 files none of which is ready.
ovars == <<pmvars, bvars, uvars, cvars>>

InitSemaphores ==
  /\ InitDownloader
  /\ upgrade = FALSE
  /\ IdleDiff
  /\ IdleKinds
  /\ IdleProgress
  /\ IdleBuilder
  /\ IdleUtils
  /\ IdleCore
  /\ tk = [t \in TaskIds |-> Queued(t)]
  /\ detached = 0
  /\ file_permits = FilePermits
  /\ chunk_permits = ChunkPermits
  /\ spc = "join"
  /\ sresult = "none"
  /\ stoken = FALSE

\* The spawned task t gets its file permit and enters worker::v2.
TaskStart(t) ==
  /\ tk[t].pc = "queued"
  /\ file_permits > 0
  /\ file_permits' = acquire(file_permits)
  /\ tk' = [tk EXCEPT ![t].pc = "run"]
  /\ UNCHANGED <<ovars, detached, chunk_permits, spc, sresult, stoken>>

\* buffer_unordered polls the next chunk future of t: it gets a chunk
\* permit and spawns its request.
ChunkRequest(t) ==
  /\ tk[t].pc = "run"
  /\ tk[t].todo > 0
  /\ tk[t].infl < BufferUnordered
  /\ chunk_permits > 0
  /\ chunk_permits' = acquire(chunk_permits)
  /\ tk' = [tk EXCEPT ![t].todo = @ - 1, ![t].infl = @ + 1]
  /\ UNCHANGED <<ovars, detached, file_permits, spc, sresult, stoken>>

\* A request of t ends with the chunk: the future completes, its permit is
\* dropped, and the write loop stores the chunk.
ChunkArrives(t) ==
  /\ tk[t].pc = "run"
  /\ tk[t].infl > 0
  /\ chunk_permits' = release(chunk_permits)
  /\ tk' = [tk EXCEPT ![t].infl = @ - 1]
  /\ UNCHANGED <<ovars, detached, file_permits, spc, sresult, stoken>>

\* A request of t ends with an error: worker::v2 returns it, the stream and
\* its futures are dropped with their permits, the file permit is dropped,
\* and the requests the other futures spawned run on.
ChunkError(t) ==
  /\ tk[t].pc = "run"
  /\ tk[t].infl > 0
  /\ chunk_permits' = ReleaseTimes(chunk_permits, tk[t].infl)
  /\ file_permits' = release(file_permits)
  /\ detached' = detached + tk[t].infl - 1
  /\ tk' = [tk EXCEPT ![t] = Ended("failed")]
  /\ UNCHANGED <<ovars, spc, sresult, stoken>>

\* Every chunk of t is written: the rename, and worker::v2 returns Ok.
TaskDone(t) ==
  /\ tk[t].pc = "run"
  /\ tk[t].todo = 0
  /\ tk[t].infl = 0
  /\ file_permits' = release(file_permits)
  /\ tk' = [tk EXCEPT ![t] = Ended("done")]
  /\ UNCHANGED <<ovars, detached, chunk_permits, spc, sresult, stoken>>

\* join_next() yields a task that returned Ok.
JoinNextOk(t) ==
  /\ spc = "join"
  /\ tk[t].pc = "done"
  /\ tk' = [tk EXCEPT ![t] = Ended("joined")]
  /\ UNCHANGED <<ovars, detached, file_permits, chunk_permits, spc, sresult, stoken>>

\* What shutdown() gives back and leaves running.
ShutdownPermits ==
  /\ tk' = AbortAll(tk)
  /\ detached' = detached + SumInfl(tk, MaxTasks)
  /\ chunk_permits' = ReleaseTimes(chunk_permits, SumInfl(tk, MaxTasks))
  /\ file_permits' =
       ReleaseTimes(file_permits, Cardinality({t \in TaskIds : tk[t].pc = "run"}))

\* join_next() yields a task that returned an error: shutdown(), and the
\* error is returned.
JoinNextErr(t) ==
  /\ spc = "join"
  /\ tk[t].pc = "failed"
  /\ ShutdownPermits
  /\ spc' = "returned"
  /\ sresult' = "Err"
  /\ UNCHANGED <<ovars, stoken>>

\* join_next() yields None: the loop ends and download() goes on to Ok.
JoinNextNone ==
  /\ spc = "join"
  /\ \A t \in TaskIds : tk[t].pc = "joined"
  /\ spc' = "returned"
  /\ sresult' = "Ok"
  /\ UNCHANGED <<ovars, tk, detached, file_permits, chunk_permits, stoken>>

\* The caller cancels the token.
CancelToken ==
  /\ spc = "join"
  /\ ~stoken
  /\ stoken' = TRUE
  /\ UNCHANGED <<ovars, tk, detached, file_permits, chunk_permits, spc, sresult>>

\* The cancelled() branch of the select: shutdown(), Cancelled is returned.
JoinNextCancelled ==
  /\ spc = "join"
  /\ stoken
  /\ ShutdownPermits
  /\ spc' = "returned"
  /\ sresult' = "Cancelled"
  /\ UNCHANGED <<ovars, stoken>>

\* A request whose future was dropped comes to its end.
DetachedEnds ==
  /\ detached > 0
  /\ detached' = detached - 1
  /\ UNCHANGED <<ovars, tk, file_permits, chunk_permits, spc, sresult, stoken>>

\* The steps of a run in which nothing fails and nobody cancels.
NextSemaphoresOk ==
  \/ \E t \in TaskIds : TaskStart(t)
  \/ \E t \in TaskIds : ChunkRequest(t)
  \/ \E t \in TaskIds : ChunkArrives(t)
  \/ \E t \in TaskIds : TaskDone(t)
  \/ \E t \in TaskIds : JoinNextOk(t)
  \/ JoinNextNone

NextSemaphores ==
  \/ NextSemaphoresOk
  \/ \E t \in TaskIds : ChunkError(t)
  \/ \E t \in TaskIds : JoinNextErr(t)
  \/ CancelToken
  \/ JoinNextCancelled
  \/ DetachedEnds

SpecSemaphores == InitSemaphores /\ [][NextSemaphores]_vars

\* The runtime polls every task that can go on, and every request ends.
SpecSemaphoresFair ==
  /\ InitSemaphores
  /\ [][NextSemaphoresOk]_vars
  /\ \A t \in TaskIds :
        /\ WF_vars(TaskStart(t))
        /\ WF_vars(ChunkRequest(t))
        /\ WF_vars(ChunkArrives(t))
        /\ WF_vars(TaskDone(t))
        /\ WF_vars(JoinNextOk(t))
  /\ WF_vars(JoinNextNone)

\* ------------------------------------------------------------------ claims

Returned(r) == pc = "returned" /\ result = r

\* C1: when a run returns Ok after nothing but cancelled runs with the same
\* inputs, every V2 file of the download list holds, at its destination,
\* the concatenation of its chunks in order.
C1_ResumedFileComplete ==
  (Returned("Ok") /\ clean) =>
     \A p \in Entries(cfg.build) :
        Gen(cfg.build, p) = 2 =>
           disk["inst"].final[p] = FileOf(Expected(cfg.build, p))

\* Two cancelled runs, then a run that resumed a partly fetched file.
C1_Witness ==
  /\ Returned("Ok") /\ clean /\ runs = 3 /\ cfg.build = "A"
  /\ fetched["f"] = {3}

\* C2: a final path a worker of the run is responsible for never holds
\* anything but the complete contents of its manifest entry.
C2_FinalPathComplete ==
  \A p \in Paths :
     (wk[p].pc # "none" /\ Stage.final[p].e) =>
        Stage.final[p].d = Expected(cfg.build, p)

\* C7: a V2 worker requests only chunks whose bit in the loaded bitmap (of
\* the length of the chunk list) is false, and when it has renamed the file
\* it has requested every one of them.
C7_FetchExactlyUnsetBits ==
  \A p \in Paths :
     (wk[p].pc \in {"run", "wrote", "renamed"} /\ Gen(cfg.build, p) = 2) =>
        /\ Len(loaded[p]) = NChunks(cfg.build, p)
        /\ fetched[p] \subseteq {i \in 1..Len(loaded[p]) : ~loaded[p][i]}
        /\ wk[p].pc = "renamed" =>
              fetched[p] = {i \in 1..Len(loaded[p]) : ~loaded[p][i]}

\* The resumed run of the three-chunk file whose sidecar held
\* [true, false, false] has fetched chunks 2 and 3 only.
C7_Witness ==
  /\ wk["f"].pc = "renamed"
  /\ loaded["f"] = <<TRUE, FALSE, FALSE>>
  /\ fetched["f"] = {2, 3}

\* C3: once the token is tripped while download() waits for its workers,
\* no finalize step runs and download() returns Cancelled with no worker
\* left running.
C3_CancelWhileWaiting ==
  token = "join" =>
     /\ pc # "finalize"
     /\ pc = "returned" => (result = "Cancelled" /\ Running = {})

\* C4: with an old manifest nothing outside `!Temp` is written before the
\* promotion step, and a run that ends with Cancelled or with an error
\* leaves the install root as it found it.
C4_StagingUnderTemp ==
  /\ [](( /\ upgrade
          /\ pc = "returned"
          /\ result \in {"Cancelled", "Err"} ) => disk["inst"] = inst0)
  /\ [][(upgrade /\ pc # "finalize") => disk'["inst"] = disk["inst"]]_vars

\* A cancelled update whose partial sidecar lies under `!Temp`.
C4_Witness ==
  /\ upgrade
  /\ Returned("Cancelled")
  /\ disk["tmp"].dl["f"].e
  /\ fetched["f"] # {}

\* C5: a run that follows a successful run with the same inputs fetches
\* nothing and renames nothing.
C5_RerunIsNoOp ==
  prevOkSame =>
     /\ \A p \in Paths : fetched[p] = {}
     /\ renames = 0

\* C6: a verifying run over a completed multi-chunk file with damaged
\* bytes has, when it returns Ok, fetched exactly the chunks that hold a
\* damaged byte and left the manifest's contents at the final path.
C6_RefetchExactlyCorrupted ==
  [][(repair # {} /\ pc # "returned" /\ pc' = "returned" /\ result' = "Ok") =>
        /\ fetched'["f"] = repair
        /\ disk'["inst"].final["f"] = FileOf(Expected(cfg.build, "f"))]_vars

C9_CancelBeatsLateError ==
  (pc = "returned" /\ \E p \in Paths : wk[p].pc = "failed" /\ wk[p].late) =>
     result = "Cancelled"

\* C10: download() without a stored DiffReport returns NotReady and changes
\* nothing on disk, starts no worker and sends no request.
C10_NotReadyNoEffect ==
  [][(pc = "built" /\ ~report /\ pc' = "returned") =>
        /\ result' = "NotReady"
        /\ disk' = disk
        /\ wk' = wk
        /\ fetched' = fetched
        /\ renames' = renames]_vars

\* download() was called on a Downloader that was never prepared.
C10_Witness ==
  /\ Returned("NotReady")
  /\ ~report

\* ------------------------------------------------------------ diff claims

\* diff() returned a DiffReport.
Reported == diff_report.status = "report"

\* Two paths that are equal when letter case is ignored.
SamePath(p, q) == p = q \/ {p, q} = {"a", "A"}

NewFiles == Flatten(new_entries)

OldFiles == Flatten(old_entries)

\* The entry is in some download list of the report.
InDownload(f) ==
  \E l \in DOMAIN diff_report.download :
    \E i \in DOMAIN diff_report.download[l].files :
      diff_report.download[l].files[i] = f

\* No other entry of the new manifest has the path of its i-th entry.
UniqueNew(i) ==
  \A j \in DOMAIN NewFiles : j # i => ~SamePath(NewFiles[j].path, NewFiles[i].path)

\* The patch lists supply a Diff for the path.
PatchSupplied(path) ==
  \E i \in DOMAIN Flatten(patches) : SamePath(Flatten(patches)[i].path, path)

\* The old manifest has an entry at the path; OldAt is the last such entry.
HasOld(path) == \E i \in DOMAIN OldFiles : SamePath(OldFiles[i].path, path)

OldAt(path) ==
  OldFiles[CHOOSE i \in DOMAIN OldFiles :
             /\ SamePath(OldFiles[i].path, path)
             /\ \A j \in DOMAIN OldFiles :
                  SamePath(OldFiles[j].path, path) => j <= i]

\* C11 as stated: a V2 file of the new manifest is absent from the download
\* lists if and only if some entry of the old manifest has its whole-file
\* md5, or both have exactly one chunk and the chunk md5s are equal.
C11_AbsentIffOldChecksum ==
  Reported =>
    \A i \in DOMAIN NewFiles :
      NewFiles[i].kind = "V2File" =>
        (~InDownload(NewFiles[i]) <=>
           \E j \in DOMAIN OldFiles :
             LET f == NewFiles[i]
                 o == OldFiles[j]
             IN \/ /\ f.md5 # "none"
                   /\ f.md5 = (IF o.kind = "V1File" THEN o.hash ELSE o.md5)
                \/ /\ o.kind = "V2File"
                   /\ Len(f.chunks) = 1 /\ Len(o.chunks) = 1
                   /\ f.chunks[1] = o.chunks[1])

\* C11, amended: a V2 file of the new manifest whose path no other new entry
\* shares is absent from the download lists if and only if it has at least
\* one chunk and the old manifest has a file at the same path, letter case
\* ignored, that is either a V2 file for whose path a patch is supplied, or
\* that has one chunk of the same md5 as the file's one chunk, or the same
\* md5 or the same sha256 where both entries carry one, or a V1 file whose
\* hash is the file's md5 (the md5 of its first chunk when it has none).
C11_AbsentIffSamePathUnchanged ==
  Reported =>
    \A i \in DOMAIN NewFiles :
      (NewFiles[i].kind = "V2File" /\ UniqueNew(i)) =>
        LET f == NewFiles[i] IN
        (~InDownload(f) <=>
           /\ f.chunks # <<>>
           /\ HasOld(f.path)
           /\ LET o == OldAt(f.path) IN
              \/ /\ o.kind = "V2File"
                 /\ \/ PatchSupplied(f.path)
                    \/ /\ Len(f.chunks) = 1 /\ Len(o.chunks) = 1
                       /\ f.chunks[1] = o.chunks[1]
                    \/ f.md5 # "none" /\ f.md5 = o.md5
                    \/ f.sha256 # "none" /\ f.sha256 = o.sha256
              \/ /\ o.kind = "V1File"
                 /\ o.hash = (IF f.md5 # "none" THEN f.md5 ELSE f.chunks[1]))

\* A two-chunk file whose old entry at the same path carries no md5 and
\* another sha256 is left out of the download lists because a patch exists.
C11_Witness ==
  /\ Reported
  /\ \E i \in DOMAIN NewFiles :
       /\ NewFiles[i].kind = "V2File" /\ UniqueNew(i)
       /\ Len(NewFiles[i].chunks) = 2
       /\ HasOld(NewFiles[i].path)
       /\ OldAt(NewFiles[i].path).kind = "V2File"
       /\ OldAt(NewFiles[i].path).chunks = <<"c2">>
       /\ PatchSupplied(NewFiles[i].path)
       /\ ~InDownload(NewFiles[i])

\* Some download list of the report holds an entry at the path.
PathInDownload(path) ==
  \E l \in DOMAIN diff_report.download :
    \E i \in DOMAIN diff_report.download[l].files :
      SamePath(diff_report.download[l].files[i].path, path)

\* C12: every V2 file of the new manifest for which the patch lists supply
\* a Diff entry gets a Patch in the report and its path is in no download
\* list, so that no path is both patched and downloaded.
C12_PatchedNotDownloaded ==
  Reported =>
    \A i \in DOMAIN NewFiles :
      (NewFiles[i].kind = "V2File" /\ PatchSupplied(NewFiles[i].path)) =>
        /\ \E k \in DOMAIN diff_report.patches :
             SamePath(diff_report.patches[k].destination_file.path,
                      NewFiles[i].path)
        /\ ~PathInDownload(NewFiles[i].path)

\* C13: `deleted` holds exactly the old entries, in the order of the old
\* lists, whose path is the path of no new entry when letter case is
\* ignored; an old path that differs from a new path only by letter case is
\* not deleted.
C13_DeletedExactlyGone ==
  Reported =>
    /\ \A i \in DOMAIN OldFiles :
         (\E k \in DOMAIN diff_report.deleted : diff_report.deleted[k] = OldFiles[i])
           <=> ~\E j \in DOMAIN NewFiles : SamePath(NewFiles[j].path, OldFiles[i].path)
    /\ \A k \in DOMAIN diff_report.deleted :
         \E i \in DOMAIN OldFiles : OldFiles[i] = diff_report.deleted[k]
    /\ Len(diff_report.deleted) =
         Cardinality({i \in DOMAIN OldFiles :
                        ~\E j \in DOMAIN NewFiles :
                           SamePath(NewFiles[j].path, OldFiles[i].path)})

\* The old manifest has "A" and "x", the new one has "a": only "x" is deleted.
C13_Witness ==
  /\ Reported
  /\ \E i \in DOMAIN OldFiles : OldFiles[i].path = "A"
  /\ \E i \in DOMAIN OldFiles : OldFiles[i].path = "x"
  /\ \E j \in DOMAIN NewFiles : NewFiles[j].path = "a"
  /\ Len(diff_report.deleted) = 1
  /\ diff_report.deleted[1].path = "x"

\* C14: every directory entry of the new manifest is emitted to
\* `directories`, and the download lists hold files only, no directory.
C14_DirectoriesOnlyInDirectories ==
  Reported =>
    /\ \A i \in DOMAIN NewFiles :
         is_dir(NewFiles[i]) =>
           \E e \in diff_report.directories : SamePath(e.path, NewFiles[i].path)
    /\ \A l \in DOMAIN diff_report.download :
         \A i \in DOMAIN diff_report.download[l].files :
           ~is_dir(diff_report.download[l].files[i])

\* ----------------------------------------------------- entry kind claims

\* The staging root of the run and the status an entry had when the
\* Downloader was prepared.
StageRoot == IF upgrade THEN "tmp" ELSE "inst"

StatusAtStart(n) == get_file_status_at(kin.fs0, StageRoot, n)

\* C15: get_required_space returns the sizes of the download-list entries
\* and of the container blob whose status is NotInitialized, plus diff size
\* and destination size of a patch that is NotInitialized; whatever is
\* Allocated, Partial, PatchDownloaded or Done adds nothing.
C15_RequiredSpaceOfNotInitialized ==
  kspace # -1 =>
    kspace =
        (IF "w" \in Range(kin.list) /\ StatusAtStart("w") = "NotInitialized"
         THEN SizeW ELSE 0)
      + (IF "s" \in Range(kin.list) /\ kin.sfc_chunks
            /\ StatusAtStart("s") = "NotInitialized"
         THEN SizeS ELSE 0)
      + (IF kin.sfc /\ StatusAtStart("b") = "NotInitialized" THEN SizeBlob ELSE 0)
      + (IF kin.patches # <<>> /\ StatusAtStart("p") = "NotInitialized"
         THEN SizeDiff + SizeP ELSE 0)

\* get_required_space was called while "w" and "s" were Done and the blob
\* was not initialised: the sum is the size of the blob.
C15_Witness ==
  /\ kspace = SizeBlob
  /\ {"w", "s"} \subseteq Range(kin.list)
  /\ StatusAtStart("w") = "Done"
  /\ StatusAtStart("b") = "NotInitialized"

\* download() returned Ok.
ReturnedOk == kpc = "returned" /\ kresult = "Ok"

\* C16: after a successful download() every file that has an sfc_ref and an
\* empty chunk list holds the bytes the container blob has for it, and the
\* blob is gone from the staging root.
C16_SfcFileFromBlob ==
  (ReturnedOk /\ "s" \in Range(kin.list) /\ ~kin.sfc_chunks) =>
     /\ <<"inst", "s", "">> \in DOMAIN kfs
     /\ kfs[<<"inst", "s", "">>] = KFile(Body("s"))
     /\ <<StageRoot, "b", "">> \notin DOMAIN kfs

\* The file entries of the download list whose size is 0: "z", and "s"
\* when it lists no chunks.
ZeroSizeFiles ==
  {n \in Range(kin.list) : ~IsDir(n) /\ ~IsLink(n) /\ EntryBytes(kin, n) = 0}

C18_PromotionOfEveryKind ==
  (upgrade /\ kpc = "returned" /\ kerr \notin {"worker", "cancel", "sfc", "patch"}) =>
     /\ kerr # "promote"
     /\ \A p \in DOMAIN kfs : p[1] # "tmp"
     /\ \A n \in Range(kin.list) : ~IsLink(n) => <<"inst", n, "">> \in DOMAIN kfs
     /\ kin.patches # <<>> => kfs[<<"inst", "p", "">>] = KFile(Body("p"))

\* Where the old build installed an entry: support files of a V2 build under
\* the support directory of their product, of a V1 build in the support
\* directory itself, everything else in the install root.
InstalledAt(n) ==
  <<IF n = "os" THEN (IF kin.gen = 2 THEN "support/P" ELSE "support") ELSE "inst",
    n, "">>

\* C19: after a successful download() no entry of `deleted`, file or
\* directory, exists at its destination path.
C19_DeletedEntriesGone ==
  ReturnedOk => \A n \in Range(kin.deleted) : InstalledAt(n) \notin DOMAIN kfs

\* C20: a download() whose list holds the link "l" and whose workers,
\* extraction, patches and deletions succeed, with no directory in the
\* list, ends with a symbolic link at the path of "l" under the install
\* root that points to its target, with and without an old manifest.
C20_LinkCreated ==
  (/\ kpc = "returned"
   /\ "l" \in Range(kin.list)
   /\ "d" \notin Range(kin.list)
   /\ kerr \notin {"worker", "cancel", "sfc", "patch", "delete"}) =>
     /\ <<"inst", "l", "">> \in DOMAIN kfs
     /\ kfs[<<"inst", "l", "">>] = KLink(LinkTarget)

\* The paths download() removes after the promotion: the destinations of
\* the deleted entries and the marker.
RemovedLast ==
  {<<get_file_root_for(upgrade, kin.gen, IsSupport(kin.deleted[k]), "0", TRUE),
     kin.deleted[k], "">> : k \in 1..Len(kin.deleted)}
  \cup {MarkerPath(upgrade, kin.gen)}

\* C21: in a download() that returned Ok and whose Finished event was taken
\* by the receiver, the event was emitted after the deletions and after the
\* removal of the marker: no deleted entry and no marker that the run
\* removed was still on disk when the event was emitted.
C21_FinishedLast ==
  (kpc = "returned" /\ kresult = "Ok" /\ kfinished.state = "sent") =>
     \A p \in RemovedLast : p \in DOMAIN kfinished.fs => p \in DOMAIN kfs

\* A Builder that was given global dependencies and no manifest.
OnlyGlobalDependencies ==
  builder.manifest = "none" /\ builder.global_dependencies # <<>>

\* C22: build() returns the DownloaderBuilder error exactly when the core is
\* missing, or the manifest and the dependency manifest are both missing,
\* or, unless only global dependencies are requested, install_root and
\* install_path are both missing.
C22_BuildErrorExactly ==
  built # NotBuilt =>
    (built = DownloaderBuilder <=>
       \/ ~builder.core
       \/ (builder.manifest = "none" /\ ~builder.dependency_manifest)
       \/ (~OnlyGlobalDependencies /\ ~builder.install_root /\ ~builder.install_path))

\* The url_format symbols 1..k with each placeholder of a parameter of the
\* map replaced, at once, by the parameter's text, the path parameter
\* followed by "/" and the relative path.
RECURSIVE Substituted(_, _, _)
Substituted(e, rel, k) ==
  IF k = 0 THEN <<>>
  ELSE LET sym == e.url_format[k]
           ps == {q \in DOMAIN e.parameters : Placeholder(q) = sym}
       IN Substituted(e, rel, k - 1) \o
          (IF ps = {} THEN <<sym>>
           ELSE LET q == CHOOSE q \in ps : TRUE
                    text == IF e.parameters[q].kind = "String" THEN e.parameters[q].v
                            ELSE IF e.parameters[q] = JNumber(17) THEN <<"1", "7">>
                            ELSE <<>>
                IN IF q = "path" THEN text \o <<"/">> \o rel ELSE text)

EndsWith(url, suffix) ==
  /\ Len(url) >= Len(suffix)
  /\ SubSeq(url, Len(url) - Len(suffix) + 1, Len(url)) = suffix

\* The galaxy path h[0:2]/h[2:4]/h of the five-digit hash.
GalaxyPathOf(h) == <<h[1], h[2], "/", h[3], h[4], "/", h[1], h[2], h[3], h[4], h[5]>>

RelativeOf(r) ==
  IF r.of = "chunk" THEN GalaxyPathOf(compressed_md5) ELSE <<"main.bin">>

UrlAsDescribed ==
  request_url.url =
    IF DOMAIN endpoint.parameters = {}
    THEN endpoint.url_format \o <<"/">> \o RelativeOf(request_url)
    ELSE Substituted(endpoint, RelativeOf(request_url), Len(endpoint.url_format))

PathComesLast ==
  \/ DOMAIN endpoint.parameters = {}
  \/ /\ "path" \in DOMAIN endpoint.parameters
     /\ endpoint.url_format[Len(endpoint.url_format)] = "{path}"

LastMember(members, id) ==
  members[CHOOSE k \in 1..Len(members) :
            /\ members[k][1] = id
            /\ \A j \in (k + 1)..Len(members) : members[j][1] # id][2]

\* C24: ensure_auth returns Ok if and only if the store holds a token for
\* the Galaxy client id, and NotLoggedIn otherwise, whatever calls came
\* before; and a deserialize_tokens that returned Ok left in the store the
\* tokens of its argument and no other.
C24_EnsureAuthIffGalaxyToken ==
  /\ last_call.of = "ensure_auth" =>
       /\ last_call.result = "Ok" <=> GALAXY_CLIENT_ID \in DOMAIN tokens
       /\ last_call.result = "NotLoggedIn" <=> GALAXY_CLIENT_ID \notin DOMAIN tokens
  /\ (last_call.of = "deserialize_tokens" /\ last_call.result = "Ok") =>
       /\ DOMAIN tokens = {last_call.arg.members[k][1] :
                             k \in 1..Len(last_call.arg.members)}
       /\ \A id \in DOMAIN tokens : tokens[id] = LastMember(last_call.arg.members, id)

\* ensure_auth refused a store that holds a token of another client only.
C24_Witness ==
  /\ last_call.of = "ensure_auth"
  /\ last_call.result = "NotLoggedIn"
  /\ DOMAIN tokens = {"123"}

\* The worker of the multi-chunk V2 file p is between opening its sidecars
\* and the rename.
BeingDownloaded(p) ==
  /\ pc = "join"
  /\ wk[p].pc \in {"run", "wrote"}
  /\ Gen(cfg.build, p) = 2
  /\ NChunks(cfg.build, p) > 1

\* Bit i of the bitmap persisted in `.state` is true.
BitPersisted(p, i) ==
  /\ Stage.st[p].e
  /\ Stage.st[p].v
  /\ i <= Len(Stage.st[p].c)
  /\ Stage.st[p].c[i]

\* The bytes of chunk i in `.download` are the chunk's data.
BytesInPlace(p, i) ==
  /\ Stage.dl[p].e
  /\ Len(Stage.dl[p].d) >= ChunkOffset(cfg.build, p, i) + ChunkSizes(cfg.build, p)[i]
  /\ SubSeq(Stage.dl[p].d, ChunkOffset(cfg.build, p, i) + 1,
            ChunkOffset(cfg.build, p, i) + ChunkSizes(cfg.build, p)[i])
       = ChunkData(cfg.build, p, i)

\* C25 as stated: at every point of the download of a multi-chunk V2 file,
\* the persisted bit of each chunk is true if and only if the chunk's bytes
\* in `.download` are the chunk's data.
C25_BitIffBytes ==
  \A p \in Paths : BeingDownloaded(p) =>
     \A i \in 1..NChunks(cfg.build, p) : BitPersisted(p, i) <=> BytesInPlace(p, i)

C30_PartialBitmapReflectsVerify ==
  cfg.verify =>
    \A p \in Entries(cfg.build) : Gen(cfg.build, p) = 2 =>
       \A i \in 1..NChunks(cfg.build, p) :
          /\ (pc = "alloc" /\ get_file_status(Stage, p) = "Partial" /\ BitPersisted(p, i))
               => BytesInPlace(p, i)
          /\ (BeingDownloaded(p) /\ loaded[p][i]) => BytesInPlace(p, i)

\* The chunk requests in flight: those of the futures that hold a chunk
\* permit and those whose future was dropped.
RequestsInFlight == SumInfl(tk, MaxTasks) + detached

\* The tasks that are inside worker::v2.
ActiveWorkers == {t \in TaskIds : tk[t].pc = "run"}

\* C27: at any time at most ChunkPermits (6) chunk requests are in flight
\* across the workers of a run, also while a worker fails or the workers
\* are shut down.
C27_AtMostSixRequests ==
  spc # "none" => RequestsInFlight <= ChunkPermits

\* C28: at any time at most FilePermits (3) workers are active, and the
\* permits out of the file semaphore are exactly those of the active
\* workers: a worker has its permit from its start until it returns Ok,
\* returns an error or is aborted.
C28_AtMostThreeWorkers ==
  spc # "none" =>
    /\ Cardinality(ActiveWorkers) <= FilePermits
    /\ file_permits = FilePermits - Cardinality(ActiveWorkers)
    /\ file_permits >= 0

\* Three workers are active and another task waits for a file permit.
C28_Witness ==
  /\ spc = "join"
  /\ Cardinality(ActiveWorkers) = FilePermits
  /\ \E t \in TaskIds : tk[t].pc = "queued"

\* C29: when no request fails and the token is not cancelled, every task
\* eventually completes and download() returns Ok.
C29_EveryWorkerCompletes ==
  <>(/\ spc = "returned"
     /\ sresult = "Ok"
     /\ \A t \in TaskIds : tk[t].pc = "joined")

\* A worker holds a file permit and waits for a chunk permit while a task
\* waits for a file permit.
C29_Witness ==
  /\ spc = "join"
  /\ chunk_permits = 0
  /\ file_permits = 0
  /\ \E t \in TaskIds : tk[t].pc = "run" /\ tk[t].todo > 0
  /\ \E t \in TaskIds : tk[t].pc = "queued"

\* ------------------------------------------------- diff claims, continued

\* C39 as stated: diff() returns a DiffReport for every combination of new
\* lists, old lists and patch lists, and never aborts: once it was called
\* there is a report.
C39_DiffAlwaysReports == diff_report = NoReport \/ Reported

\* The places <<list, index>> of the entries of the download lists.
DownloadPlaces ==
  UNION {{<<l, i>> : i \in DOMAIN diff_report.download[l].files} :
           l \in DOMAIN diff_report.download}

DownloadAt(x) == diff_report.download[x[1]].files[x[2]]

\* C40: in every DiffReport no two entries of the download lists have the
\* same path when letter case is ignored, and number_of_files is the number
\* of patches plus the number of entries of the download lists.
C40_PathsOnceAndCounted ==
  Reported =>
    /\ \A x \in DownloadPlaces, y \in DownloadPlaces :
         x # y => ~SamePath(DownloadAt(x).path, DownloadAt(y).path)
    /\ diff_report.number_of_files =
         Len(diff_report.patches) + Cardinality(DownloadPlaces)

\* Two depots of the new manifest hold the same path in different case,
\* the report downloads it once, and it also counts a patch.
C40_Witness ==
  /\ Reported
  /\ Len(new_entries) = 2
  /\ \E i \in DOMAIN NewFiles, j \in DOMAIN NewFiles :
       /\ i # j
       /\ NewFiles[i].path # NewFiles[j].path
       /\ SamePath(NewFiles[i].path, NewFiles[j].path)
       /\ \E x \in DownloadPlaces : SamePath(DownloadAt(x).path, NewFiles[i].path)
  /\ Len(diff_report.patches) = 1
  /\ diff_report.number_of_files = 2

\* ------------------------------------------------ entry kinds, continued

\* The counters of a Downloading snapshot are within their totals.
WithinTotals ==
  /\ download_progress.downloaded <= download_progress.total_download
  /\ download_progress.written <= download_progress.total_size

\* C38 as stated: in every Downloading snapshot of a run downloaded is at
\* most total_download and written at most total_size, and neither counter
\* ever decreases within the run, also when the run resumes partially
\* downloaded files or patches whose output is already in staging.
C38_CountersWithinTotals ==
  /\ [](kfinished.state # "none" => WithinTotals)
  /\ [][kfinished.state # "none" =>
          /\ download_progress'.downloaded >= download_progress.downloaded
          /\ download_progress'.written >= download_progress.written]_vars

\* C37 as stated: a download() that returned an error or Cancelled has not
\* emitted Finished; the receiver gets Finished only from runs that
\* return Ok.
C37_FinishedOnlyAfterOk ==
  (kpc = "returned" /\ kfinished.state = "sent") => kresult = "Ok"

\* C33 as stated: download() writes its build id into the marker of the
\* staging root before it allocates and removes the marker only when it
\* completes: while it runs and after it returned Cancelled or an error
\* the marker holds the build id of the run, after it returned Ok the
\* marker does not exist.
C33_MarkerUntilSuccess ==
  /\ (kpc = "returned" /\ kresult = "Ok") =>
       MarkerPath(upgrade, kin.gen) \notin DOMAIN kfs
  /\ (kpc = "join" \/ (kpc = "returned" /\ kresult # "Ok")) =>
       /\ MarkerPath(upgrade, kin.gen) \in DOMAIN kfs
       /\ kfs[MarkerPath(upgrade, kin.gen)] = KFile(<<"build">>)

\* The run verifies, and it met a patch whose Diff was fully downloaded
\* but does not hold the bytes of its chunk md5s.
CorruptPatchDownloaded ==
  /\ should_verify_at(kin, upgrade, kin.fs0)
  /\ kin.patches # <<>>
  /\ StatusAtStart("p") = "PatchDownloaded"
  /\ kin.fs0[<<StageRoot, "p", ".diff">>] # KFile(<<"diff", "p">>)

\* C31 as stated: with verify active, a patch found PatchDownloaded whose
\* Diff does not match its chunk md5s is demoted to Allocated with a bitmap
\* beside it, and the run spawns the worker that fetches the Diff again
\* before the patch is applied.
C31_CorruptPatchDemoted ==
  (kpc \notin {"none", "prepared"} /\ CorruptPatchDownloaded) =>
     /\ <<StageRoot, "p", ".diff.download">> \in DOMAIN kalloc
     /\ <<StageRoot, "p", ".diff.state">> \in DOMAIN kalloc
     /\ "p.diff" \in DOMAIN kwk

\* Where download() stands from the end of the join loop to its return, and
\* where it stands once the extraction, the patching and the promotion are
\* over.
AfterJoin == {"finalize", "patch", "promote", "progress", "symlinks", "delete", "marker"}

Extracted == AfterJoin \ {"finalize"}

Patched == Extracted \ {"patch"}

Promoted_all == Patched \ {"promote"}

StepOrder == <<"finalize", "patch", "promote", "progress", "symlinks", "delete", "marker">>

FinalizeOrdered ==
  /\ kpc \in AfterJoin => \A t \in DOMAIN kwk : kwk[t] = "ok"
  /\ (kpc \in Extracted /\ kin.sfc) => <<StageRoot, "b", "">> \notin DOMAIN kfs
  /\ (kpc \in Patched /\ kin.patches # <<>>) =>
        /\ <<StageRoot, "p", ".diff">> \notin DOMAIN kfs
        /\ <<StageRoot, "p", ".patched">> \notin DOMAIN kfs
  /\ (kpc \in Promoted_all /\ upgrade) => \A q \in DOMAIN kfs : q[1] # "tmp"
  /\ kpc \in AfterJoin \ {"marker"} =>
        \A n \in Range(kin.deleted) : InstalledAt(n) \in DOMAIN kfs

\* C34: download() starts no finalize step before every worker task was
\* joined, and the steps run one after the other in the order extraction,
\* patching, promotion, deletion: when patching starts the container is
\* extracted and its blob gone, when the promotion starts every patch is
\* applied, when the deletion starts nothing is left in !Temp, and no
\* deleted entry is removed before the deletion step.
C34_FinalizeInOrder ==
  /\ []FinalizeOrdered
  /\ [][(kpc \in AfterJoin /\ kpc' # kpc) =>
          \/ kpc' = "returned"
          \/ \E i \in 1..(Len(StepOrder) - 1) :
               kpc = StepOrder[i] /\ kpc' = StepOrder[i + 1]]_vars

\* An update with a container, a patch and a deleted file stands at the
\* deletion step.
C34_Witness ==
  /\ kpc = "delete"
  /\ upgrade
  /\ kin.sfc
  /\ kin.patches # <<>>
  /\ "o" \in Range(kin.deleted)
  /\ DOMAIN kwk # {}

\* ------------------------------------------------- download(), continued

\* C36 as stated: when download() returns Ok, every file entry of the
\* download list exists at its destination path and neither its
\* `.download` nor its `.state` sidecar remains, in the install root or in
\* the staging root.
C36_OkLeavesFilesOnly ==
  Returned("Ok") =>
     \A p \in Entries(cfg.build) :
        /\ disk["inst"].final[p].e
        /\ \A r \in {"inst", "tmp"} : ~disk[r].dl[p].e /\ ~disk[r].st[p].e

\* C32 as stated: after the allocation step the `.download` sidecar of
\* every file that is not ready has exactly the final size of its entry,
\* whether it was missing, shorter or longer before.
C32_SidecarHasFinalSize ==
  (pc = "join" /\ \A p \in Paths : wk[p].pc \in {"none", "queued"}) =>
     \A p \in Entries(cfg.build) \ ready :
        /\ Stage.dl[p].e
        /\ Len(Stage.dl[p].d) = EntrySize(cfg.build, p)

\* ------------------------------------------------------- progress events

\* The calls of prepare() and download() made on one Downloader.
MaxCalls == 3

\* The file lists of a download report.
MaxLists == 3

\* The WorkerUpdates the workers of one download() send.
MaxUpdates == 2

\* tokio::sync::mpsc::channel(5) of the Builder.
ProgressCapacity == 5

gothers == <<mvars, dvars, kvars, bvars, uvars, cvars, svars>>

\* Sender::try_send: the event is queued when the channel has room and the
\* receiver is alive, and is dropped otherwise.
try_send(channel, receiver, event) ==
  IF receiver # "dropped" /\ Len(channel) < ProgressCapacity
  THEN Append(channel, event) ELSE channel

\* Sender::send(..).await can complete: with Ok when the channel has room,
\* with Err when the receiver was dropped.  It waits otherwise.
send_ready(channel, receiver) ==
  receiver = "dropped" \/ Len(channel) < ProgressCapacity

\* Downloader::take_progress_receiver, called by the application.
take_progress_receiver ==
  /\ progress_channel_receiver = "held"
  /\ progress_channel_receiver' = "taken"
  /\ UNCHANGED <<gothers, progress_channel, rx, tx, gpc, rpc, gcount, gcalls>>

\* The application reads one event from the receiver it took.
Recv ==
  /\ progress_channel_receiver = "taken"
  /\ progress_channel # <<>>
  /\ progress_channel' = Tail(progress_channel)
  /\ UNCHANGED <<gothers, progress_channel_receiver, rx, tx, gpc, rpc, gcount, gcalls>>

\* The application drops the receiver; the queued events go with it.
DropReceiver ==
  /\ progress_channel_receiver = "taken"
  /\ progress_channel_receiver' = "dropped"
  /\ progress_channel' = <<>>
  /\ UNCHANGED <<gothers, rx, tx, gpc, rpc, gcount, gcalls>>

\* prepare() is called.
CallPrepare ==
  /\ gpc = "idle"
  /\ gcalls < MaxCalls
  /\ gcalls' = gcalls + 1
  /\ gpc' = "prepare"
  /\ UNCHANGED <<gothers, progress_channel, progress_channel_receiver, rx, tx, rpc, gcount>>

\* prepare(): progress_channel_sender.send(Preparing).await, then the
\* manifests are fetched and the call returns.
PrepareSend ==
  /\ gpc = "prepare"
  /\ send_ready(progress_channel, progress_channel_receiver)
  /\ progress_channel' =
       try_send(progress_channel, progress_channel_receiver, "Preparing")
  /\ gpc' = "idle"
  /\ UNCHANGED <<gothers, progress_channel_receiver, rx, tx, rpc, gcount, gcalls>>

\* download() is called on a report of n file lists.
CallDownload(n) ==
  /\ gpc = "idle"
  /\ gcalls < MaxCalls
  /\ gcalls' = gcalls + 1
  /\ gpc' = "allocate"
  /\ gcount' = n
  /\ UNCHANGED <<gothers, progress_channel, progress_channel_receiver, rx, tx, rpc>>

\* download(): one file list is allocated and try_send(Allocating) follows.
AllocateList ==
  /\ gpc = "allocate"
  /\ gcount > 0
  /\ gcount' = gcount - 1
  /\ progress_channel' =
       try_send(progress_channel, progress_channel_receiver, "Allocating")
  /\ UNCHANGED <<gothers, progress_channel_receiver, rx, tx, gpc, rpc, gcalls>>

\* download(): the unbounded channel is made, the progress_report task and
\* the workers are spawned.
SpawnProgressReport ==
  /\ gpc = "allocate"
  /\ gcount = 0
  /\ gpc' = "workers"
  /\ rpc' = "loop"
  /\ tx' = TRUE
  /\ rx' = 0
  /\ UNCHANGED <<gothers, progress_channel, progress_channel_receiver, gcount, gcalls>>

\* A worker reports a chunk: UnboundedSender::send never waits.
WorkerUpdate ==
  /\ gpc = "workers"
  /\ gcount < MaxUpdates
  /\ gcount' = gcount + 1
  /\ rx' = rx + 1
  /\ UNCHANGED <<gothers, progress_channel, progress_channel_receiver, tx, gpc, rpc, gcalls>>

\* download(): the workers are joined, the later steps run, tx is dropped
\* and progress_report is awaited.
DropTx ==
  /\ gpc = "workers"
  /\ gpc' = "await"
  /\ tx' = FALSE
  /\ gcount' = 0
  /\ UNCHANGED <<gothers, progress_channel, progress_channel_receiver, rx, rpc, gcalls>>

\* progress_report: rx.try_recv() returns an update; when 500 ms elapsed
\* since the last snapshot, try_send(Downloading).
ProgressUpdate(elapsed) ==
  /\ rpc = "loop"
  /\ rx > 0
  /\ rx' = rx - 1
  /\ progress_channel' =
       IF elapsed
       THEN try_send(progress_channel, progress_channel_receiver, "Downloading")
       ELSE progress_channel
  /\ UNCHANGED <<gothers, progress_channel_receiver, tx, gpc, rpc, gcount, gcalls>>

\* progress_report: rx.try_recv() returns Disconnected.
ProgressDisconnected ==
  /\ rpc = "loop"
  /\ rx = 0
  /\ ~tx
  /\ rpc' = "last"
  /\ UNCHANGED <<gothers, progress_channel, progress_channel_receiver, rx, tx, gpc, gcount, gcalls>>

\* progress_report: send_timeout(event, 1 s) queues the event, or gives up
\* after the second when the channel stayed full.
SendTimeout(at, event, next) ==
  /\ rpc = at
  /\ progress_channel' =
       try_send(progress_channel, progress_channel_receiver, event)
  /\ rpc' = next
  /\ UNCHANGED <<gothers, progress_channel_receiver, rx, tx, gpc, gcount, gcalls>>

SendLastSnapshot == SendTimeout("last", "Downloading", "finished")

SendFinished == SendTimeout("finished", "Finished", "done")

\* download(): progress_report.await completes and the call returns.
DownloadReturns ==
  /\ gpc = "await"
  /\ rpc = "done"
  /\ gpc' = "idle"
  /\ rpc' = "none"
  /\ UNCHANGED <<gothers, progress_channel, progress_channel_receiver, rx, tx, gcount, gcalls>>

InitProgress ==
  /\ InitDownloader
  /\ IdleDiff
  /\ IdleKinds
  /\ IdlePure

\* What the Downloader, its tasks and its workers do.
DownloaderSteps ==
  \/ PrepareSend
  \/ AllocateList
  \/ SpawnProgressReport
  \/ DropTx
  \/ \E elapsed \in BOOLEAN : ProgressUpdate(elapsed)
  \/ ProgressDisconnected
  \/ SendLastSnapshot
  \/ SendFinished
  \/ DownloadReturns

NextProgress ==
  \/ take_progress_receiver
  \/ Recv
  \/ DropReceiver
  \/ CallPrepare
  \/ \E n \in 1..MaxLists : CallDownload(n)
  \/ WorkerUpdate
  \/ DownloaderSteps

SpecProgress == InitProgress /\ [][NextProgress]_vars

\* The runtime keeps running every task that can take a step, and timers
\* fire.  Nothing is assumed of the application: it may never call, never
\* take the receiver and never read from it.
SpecProgressFair == SpecProgress /\ WF_vars(DownloaderSteps)

\* C35: whatever the consumer of the progress events does, a call of
\* prepare() or download() that was made returns.
C35_CallsReturn == (gpc # "idle") ~> (gpc = "idle")

====
